---- MODULE Spec2Model ----
(***************************************************************************)
(* Flood hazard and damage estimation engine (andrewchaubis/rcp).          *)
(*                                                                         *)
(* Numbers.  The program computes with floats; the model computes with     *)
(* exact integers and rationals:                                           *)
(*   - a depth is an integer number of tenths of a metre (15 = 1.5 m);     *)
(*   - a damage ratio stored in a table is an integer number of            *)
(*     thousandths (750 = 0.75);                                           *)
(*   - a computed ratio is a rational [n |-> , d |-> ] of thousandths,     *)
(*     d > 0, so that a linear interpolation is exact.                     *)
(***************************************************************************)
EXTENDS Integers, Sequences, FiniteSets, TLC

VARIABLES
    calc,              \* the class of the calculator instance under analysis
    constructed,       \* whether its constructor has returned
    data_files,        \* the reference files present in its data directory
    damage_functions,  \* the instance's loaded damage-function table (rows)
    reference_data,    \* the instance's other loaded reference tables
    call,              \* the last operation invoked and its arguments
    result             \* what that operation returned or raised

vars == <<calc, constructed, data_files, damage_functions, reference_data, call, result>>

(***************************************************************************)
(* Bounds of the model.                                                    *)
(***************************************************************************)
MaxRows == 3           \* rows of a damage-function table

(***************************************************************************)
(* Arithmetic helpers.                                                     *)
(***************************************************************************)
Min(a, b) == IF a <= b THEN a ELSE b
Max(a, b) == IF a >= b THEN a ELSE b

Rat(n, d) == [n |-> n, d |-> d]
RatLe(a, b) == a.n * b.d <= b.n * a.d
RatEq(a, b) == a.n * b.d = b.n * a.d

Range(s) == {s[i] : i \in 1..Len(s)}

(***************************************************************************)
(* Outcomes of a call: a returned ratio, or a raised exception.            *)
(* `source` names the branch of the lookup that supplied the function and *)
(* `rows` the rows that branch selected: bookkeeping of the model, the     *)
(* program returns the ratio alone.                                        *)
(***************************************************************************)
Returned(r, source, rows) ==
    [raised |-> "none", ratio |-> r, source |-> source, rows |-> rows]
Raised(e, source, rows) ==
    [raised |-> e, ratio |-> Rat(0, 1), source |-> source, rows |-> rows]
NoCall == [op |-> "none"]
NoResult == [raised |-> "none", ratio |-> Rat(0, 1), source |-> "none", rows |-> <<>>]

(***************************************************************************)
(* Array helpers of numpy / scipy / pandas, as the calculators use them.   *)
(***************************************************************************)
\* DataFrame[mask] is SelectSeq: the rows that satisfy the mask, in table order.

\* np.argsort / sort_values: the row indices in ascending order of depth.
RECURSIVE ArgSortUpTo(_, _)
ArgSortUpTo(depths, k) ==
    IF k = 0 THEN <<>>
    ELSE LET prev == ArgSortUpTo(depths, k - 1)
             pos == Cardinality({j \in 1..Len(prev) : depths[prev[j]] <= depths[k]})
         IN SubSeq(prev, 1, pos) \o <<k>> \o SubSeq(prev, pos + 1, Len(prev))

ArgSort(depths) == ArgSortUpTo(depths, Len(depths))

Permute(xs, idx) == [i \in 1..Len(idx) |-> xs[idx[i]]]

\* Linear interpolation on ascending xs at a point x with xs[1] <= x <= xs[Len(xs)].
LinearInterp(xs, ys, x) ==
    LET i == CHOOSE j \in 1..(Len(xs) - 1) : xs[j] <= x /\ x <= xs[j + 1]
        dx == xs[i + 1] - xs[i]
    IN Rat(ys[i] * dx + (ys[i + 1] - ys[i]) * (x - xs[i]), dx)

\* scipy interp1d(x, y, kind='linear', bounds_error=False, fill_value=(below, above)):
\* x and y are sorted by x first (assume_sorted=False); the fill values are used as given.
Interp1dFill(depths, ratios, below, above, x) ==
    LET idx == ArgSort(depths)
        xs == Permute(depths, idx)
        ys == Permute(ratios, idx)
    IN IF x < xs[1] THEN Rat(below, 1)
       ELSE IF x > xs[Len(xs)] THEN Rat(above, 1)
       ELSE LinearInterp(xs, ys, x)

\* scipy interp1d(x, y, kind='linear') called inside the range of x.
Interp1d(depths, ratios, x) ==
    LET idx == ArgSort(depths)
    IN LinearInterp(Permute(depths, idx), Permute(ratios, idx), x)

\* min(1.0, depth * 0.3): 30 thousandths per tenth of a metre, at most 1000.
FlatRatio(depth) == Rat(Min(1000, depth * 30), 1)

(***************************************************************************)
(* FloodDamageCalculator: table rows are                                   *)
(*   [land_use_type, building_type, depth, damage_ratio].                  *)
(***************************************************************************)
DamageFunctionsFile == "damage_functions.parquet"

\* DataManager.get_damage_function: "DataNotFoundError" when the file is absent,
\* "None" when no row matches, else the matching rows sorted by depth.
DataManagerGetDamageFunction(files, table, land_use_type, building_type) ==
    IF DamageFunctionsFile \notin files THEN [raised |-> "DataNotFoundError", rows |-> <<>>]
    ELSE LET Mask(r) == r.land_use_type = land_use_type /\ r.building_type = building_type
             damage_func == SelectSeq(table, Mask)
             idx == ArgSort([i \in 1..Len(damage_func) |-> damage_func[i].depth])
         IN IF Len(damage_func) > 0
            THEN [raised |-> "none", rows |-> Permute(damage_func, idx)]
            ELSE [raised |-> "none", rows |-> <<>>]

GenericCurve(depths, ratios) ==
    [i \in 1..Len(depths) |-> [depth |-> depths[i], damage_ratio |-> ratios[i]]]

GetGenericDamageFunction(land_use_type) ==
    IF land_use_type = "residential"
    THEN GenericCurve(<<0, 5, 10, 15, 20, 30, 40, 50>>,
                      <<0, 150, 350, 500, 650, 800, 900, 950>>)
    ELSE IF land_use_type = "commercial"
    THEN GenericCurve(<<0, 3, 6, 10, 15, 20, 30, 40>>,
                      <<0, 200, 400, 600, 750, 850, 920, 970>>)
    ELSE IF land_use_type = "industrial"
    THEN GenericCurve(<<0, 5, 10, 15, 20, 25, 30, 40>>,
                      <<0, 100, 250, 400, 550, 700, 800, 900>>)
    ELSE GenericCurve(<<0, 5, 10, 15, 20, 30, 40, 50>>,
                      <<0, 150, 300, 450, 600, 750, 850, 950>>)

\* FloodDamageCalculator._get_damage_function: the table's function when the data
\* manager returns a non-empty one, else (no match, or any exception) the generic curve.
FloodGetDamageFunction(files, table, land_use_type, building_type) ==
    LET got == DataManagerGetDamageFunction(files, table, land_use_type, building_type)
    IN IF got.raised = "none" /\ Len(got.rows) > 0
       THEN [source |-> "table", rows |-> got.rows]
       ELSE [source |-> "generic", rows |-> GetGenericDamageFunction(land_use_type)]

InterpolateDamageRatio(damage_function, flood_depth) ==
    IF Len(damage_function) < 2 THEN [raised |-> "CalculationError", ratio |-> Rat(0, 1)]
    ELSE LET depths == [i \in 1..Len(damage_function) |-> damage_function[i].depth]
             ratios == [i \in 1..Len(damage_function) |-> damage_function[i].damage_ratio]
         IN [raised |-> "none",
             ratio |-> IF flood_depth <= depths[1] THEN Rat(ratios[1], 1)
                       ELSE IF flood_depth >= depths[Len(depths)]
                       THEN Rat(ratios[Len(ratios)], 1)
                       ELSE Interp1d(depths, ratios, flood_depth)]

(***************************************************************************)
(* EnhancedFloodDamageCalculator: table rows are                           *)
(*   [building_type, country_code, depth_m, damage_ratio].                 *)
(***************************************************************************)
\* As _get_damage_ratio without the preference for the country's own rows.
EnhancedGetDamageRatio_NoCountryPreference(table, depth, building_type, country_code) ==
    LET Mask(r) == r.building_type = building_type /\ r.country_code = "DEFAULT"
        relevant_functions == SelectSeq(table, Mask)
        depths == [i \in 1..Len(relevant_functions) |-> relevant_functions[i].depth_m]
        ratios == [i \in 1..Len(relevant_functions) |-> relevant_functions[i].damage_ratio]
    IN IF Len(relevant_functions) = 0 THEN Returned(FlatRatio(depth), "flat", <<>>)
       ELSE IF Len(depths) = 1
       THEN Returned(Rat(ratios[1], 1), "relevant_functions", relevant_functions)
       ELSE Returned(Interp1dFill(depths, ratios, ratios[1], ratios[Len(ratios)], depth),
                     "relevant_functions", relevant_functions)

EnhancedGetDamageRatio(table, depth, building_type, country_code) ==
    LET Mask(r) == r.building_type = building_type
                   /\ r.country_code \in {country_code, "DEFAULT"}
        both == SelectSeq(table, Mask)
        Specific(r) == r.country_code = country_code
        country_specific == SelectSeq(both, Specific)
        relevant_functions == IF Len(country_specific) > 0 THEN country_specific ELSE both
        depths == [i \in 1..Len(relevant_functions) |-> relevant_functions[i].depth_m]
        ratios == [i \in 1..Len(relevant_functions) |-> relevant_functions[i].damage_ratio]
        source == IF Len(country_specific) > 0 THEN "country_specific"
                  ELSE "relevant_functions"
    IN IF Len(both) = 0 THEN Returned(FlatRatio(depth), "flat", <<>>)
       ELSE IF Len(depths) = 1 THEN Returned(Rat(ratios[1], 1), source, relevant_functions)
       ELSE Returned(Interp1dFill(depths, ratios, ratios[1], ratios[Len(ratios)], depth),
                     source, relevant_functions)

(***************************************************************************)
(* JRCFloodDamageCalculator: table rows are                                *)
(*   [building_type, region, depth_m, damage_ratio].                       *)
(***************************************************************************)
JrcDamageClass(building_type) ==
    CASE building_type = "residential" -> "residential_buildings"
      [] building_type = "commercial" -> "commercial_buildings"
      [] building_type = "industrial" -> "industrial_buildings"
      [] building_type = "agriculture" -> "agriculture"
      [] building_type = "infrastructure" -> "infrastructure___roads"
      [] building_type = "transport" -> "transport"
      [] OTHER -> "residential_buildings"

JrcGetDamageRatio(table, depth, building_type, region) ==
    LET damage_class == JrcDamageClass(building_type)
        Mask(r) == r.building_type = damage_class /\ r.region = region
        MaskGlobal(r) == r.building_type = damage_class /\ r.region = "GLOBAL"
        regional == SelectSeq(table, Mask)
        relevant_functions == IF Len(regional) = 0 THEN SelectSeq(table, MaskGlobal)
                              ELSE regional
        depths == [i \in 1..Len(relevant_functions) |-> relevant_functions[i].depth_m]
        ratios == [i \in 1..Len(relevant_functions) |-> relevant_functions[i].damage_ratio]
        sorted_indices == ArgSort(depths)
        depths_sorted == Permute(depths, sorted_indices)
        ratios_sorted == Permute(ratios, sorted_indices)
        source == IF Len(regional) = 0 THEN "mask_global" ELSE "mask"
        ratio == IF Len(depths) = 1 THEN Rat(ratios[1], 1)
                 ELSE IF depth <= depths_sorted[1] THEN Rat(ratios_sorted[1], 1)
                 ELSE IF depth >= depths_sorted[Len(depths_sorted)]
                 THEN Rat(ratios_sorted[Len(ratios_sorted)], 1)
                 ELSE LinearInterp(depths_sorted, ratios_sorted, depth)
    IN IF Len(relevant_functions) = 0 THEN Returned(FlatRatio(depth), "flat", <<>>)
       ELSE Returned(ratio, source, relevant_functions)

(***************************************************************************)
(* Reference tables the calculators can have loaded.  A table is any       *)
(* sequence of at most MaxRows rows, in any order of depth; a function     *)
(* has one ratio per depth.  Every lookup filters the rows by key first    *)
(* and keeps their relative order, so the rows of the first key are        *)
(* listed before the rows of the second without loss.                      *)
(***************************************************************************)
RowDepths == {0, 10, 20}
RowRatios == {0, 500, 1000}

PointSeqs(n) ==
    {s \in [1..n -> RowDepths \X RowRatios] :
        \A i, j \in 1..n : i # j => s[i][1] # s[j][1]}

Splits == {m \in (0..MaxRows) \X (0..MaxRows) : m[1] + m[2] <= MaxRows}

FloodRows(land_use_type, pts) ==
    [i \in 1..Len(pts) |-> [land_use_type |-> land_use_type,
                            building_type |-> "single_family",
                            depth |-> pts[i][1], damage_ratio |-> pts[i][2]]]

EnhancedRows(country_code, pts) ==
    [i \in 1..Len(pts) |-> [building_type |-> "residential",
                            country_code |-> country_code,
                            depth_m |-> pts[i][1], damage_ratio |-> pts[i][2]]]

JrcRows(region, pts) ==
    [i \in 1..Len(pts) |-> [building_type |-> "residential_buildings",
                            region |-> region,
                            depth_m |-> pts[i][1], damage_ratio |-> pts[i][2]]]

FloodTables ==
    UNION {{FloodRows("residential", a) \o FloodRows("industrial", b) :
                a \in PointSeqs(m[1]), b \in PointSeqs(m[2])} : m \in Splits}

EnhancedTables ==
    UNION {{EnhancedRows("US", a) \o EnhancedRows("DEFAULT", b) :
                a \in PointSeqs(m[1]), b \in PointSeqs(m[2])} : m \in Splits}

JrcTables ==
    UNION {{JrcRows("North AMERICA", a) \o JrcRows("GLOBAL", b) :
                a \in PointSeqs(m[1]), b \in PointSeqs(m[2])} : m \in Splits}

\* EnhancedFloodDamageCalculator._create_default_damage_functions: depths 0, 0.5, ...,
\* 5.5 m and the sigmoid ratios of each building type, rounded to thousandths.
DefaultSigmoid(building_type) ==
    CASE building_type = "residential" ->
           <<47, 119, 269, 500, 731, 881, 953, 982, 993, 998, 999, 1000>>
      [] building_type = "commercial" ->
           <<47, 148, 378, 679, 881, 963, 989, 997, 999, 1000, 1000, 1000>>
      [] building_type = "industrial" ->
           <<38, 88, 192, 368, 589, 779, 897, 955, 981, 992, 997, 999>>
      [] OTHER ->
           <<44, 121, 293, 555, 789, 918, 971, 990, 997, 999, 1000, 1000>>

DefaultRowsOf(building_type) ==
    [i \in 1..12 |-> [building_type |-> building_type, country_code |-> "DEFAULT",
                      depth_m |-> (i - 1) * 5,
                      damage_ratio |-> DefaultSigmoid(building_type)[i]]]

CreateDefaultDamageFunctions ==
    DefaultRowsOf("residential") \o DefaultRowsOf("commercial")
        \o DefaultRowsOf("industrial") \o DefaultRowsOf("institutional")

EnhancedDamageFunctionsFile == "damage_functions_data.parquet"
JrcDamageFunctionsFile == "damage_functions_jrc.parquet"

\* EnhancedFloodDamageCalculator._load_damage_functions: the file's table, or the
\* default table when the file cannot be loaded.
EnhancedLoadDamageFunctions(files, content) ==
    IF EnhancedDamageFunctionsFile \in files THEN content
    ELSE CreateDefaultDamageFunctions

(***************************************************************************)
(* Specification Spec: one calculator instance after construction, and the *)
(* damage-ratio lookups made on it.                                        *)
(***************************************************************************)
QueryDepths == {0, 5, 15, 20, 200}

InitFlood ==
    /\ calc = "FloodDamageCalculator"
    /\ \/ data_files = {} /\ damage_functions = <<>>
       \/ data_files = {DamageFunctionsFile} /\ damage_functions \in FloodTables

InitEnhanced ==
    /\ calc = "EnhancedFloodDamageCalculator"
    /\ \/ /\ data_files = {}
          /\ damage_functions = EnhancedLoadDamageFunctions({}, <<>>)
       \/ /\ data_files = {EnhancedDamageFunctionsFile}
          /\ \E content \in EnhancedTables :
                damage_functions = EnhancedLoadDamageFunctions(data_files, content)

InitJrc ==
    /\ calc = "JRCFloodDamageCalculator"
    /\ data_files = {JrcDamageFunctionsFile}
    /\ damage_functions \in JrcTables

NoReference ==
    [country_data |-> <<>>, max_damage_data |-> <<>>, iso_table |-> <<>>,
     land_use_data |-> <<>>, building_types |-> <<>>]

Init ==
    /\ InitFlood \/ InitEnhanced \/ InitJrc
    /\ constructed = TRUE
    /\ reference_data = NoReference
    /\ call = NoCall
    /\ result = NoResult

\* FloodDamageCalculator: _get_damage_function, then _interpolate_damage_ratio.
FloodDamageRatio(files, table, land_use_type, building_type, flood_depth) ==
    LET damage_function == FloodGetDamageFunction(files, table,
                                                  land_use_type, building_type)
        damage_ratio == InterpolateDamageRatio(damage_function.rows, flood_depth)
    IN IF damage_ratio.raised = "none"
       THEN Returned(damage_ratio.ratio, damage_function.source, damage_function.rows)
       ELSE Raised(damage_ratio.raised, damage_function.source, damage_function.rows)

FloodRatioCall ==
    /\ calc = "FloodDamageCalculator"
    /\ \E depth \in QueryDepths, land_use_type \in {"residential", "industrial"} :
          /\ call' = [op |-> "_interpolate_damage_ratio", depth |-> depth,
                      building_type |-> "single_family", key |-> land_use_type]
          /\ result' = FloodDamageRatio(data_files, damage_functions,
                                        land_use_type, "single_family", depth)
    /\ UNCHANGED <<calc, constructed, data_files, damage_functions, reference_data>>

EnhancedRatioCall ==
    /\ calc = "EnhancedFloodDamageCalculator"
    /\ \E depth \in QueryDepths, building_type \in {"residential", "agriculture"},
          country_code \in {"US", "MX"} :
          /\ call' = [op |-> "_get_damage_ratio", depth |-> depth,
                      building_type |-> building_type, key |-> country_code]
          /\ result' = EnhancedGetDamageRatio(damage_functions, depth,
                                              building_type, country_code)
    /\ UNCHANGED <<calc, constructed, data_files, damage_functions, reference_data>>

JrcRatioCall ==
    /\ calc = "JRCFloodDamageCalculator"
    /\ \E depth \in QueryDepths, building_type \in {"residential", "agriculture"},
          region \in {"North AMERICA", "EUROPE"} :
          /\ call' = [op |-> "_get_jrc_damage_ratio", depth |-> depth,
                      building_type |-> building_type, key |-> region]
          /\ result' = JrcGetDamageRatio(damage_functions, depth, building_type, region)
    /\ UNCHANGED <<calc, constructed, data_files, damage_functions, reference_data>>

Next == FloodRatioCall \/ EnhancedRatioCall \/ JrcRatioCall

Spec == Init /\ [][Next]_vars

(***************************************************************************)
(* Vocabulary of the properties.                                           *)
(***************************************************************************)
RatioCalls == {"_interpolate_damage_ratio", "_get_damage_ratio", "_get_jrc_damage_ratio"}

RowDepth(r) == IF calc = "FloodDamageCalculator" THEN r.depth ELSE r.depth_m

\* The control points (depth, ratio) of the function the last lookup selected.
SelectedPoints == {<<RowDepth(r), r.damage_ratio>> : r \in Range(result.rows)}

LowestPoint(points) == CHOOSE p \in points : \A q \in points : p[1] <= q[1]
HighestPoint(points) == CHOOSE p \in points : \A q \in points : p[1] >= q[1]

\* The ratio the interpolation policy prescribes for a set of control points.
PolicyRatio(points, depth) ==
    LET lo == LowestPoint(points)
        hi == HighestPoint(points)
        a == HighestPoint({p \in points : p[1] <= depth})
        b == LowestPoint({p \in points : p[1] >= depth})
    IN IF depth <= lo[1] THEN Rat(lo[2], 1)
       ELSE IF depth >= hi[1] THEN Rat(hi[2], 1)
       ELSE IF a = b THEN Rat(a[2], 1)
       ELSE Rat(a[2] * (b[1] - a[1]) + (b[2] - a[2]) * (depth - a[1]), b[1] - a[1])

\* Ratios within [0, 1] and non-decreasing in depth.
WellFormed(points) ==
    /\ \A p \in points : 0 <= p[2] /\ p[2] <= 1000
    /\ \A p, q \in points : p[1] <= q[1] => p[2] <= q[2]

InUnitInterval(r) == RatLe(Rat(0, 1), r) /\ RatLe(r, Rat(1000, 1))

\* The lookup of the last call, made again on the same instance at another depth.
RatioAt(depth) ==
    CASE call.op = "_interpolate_damage_ratio" ->
           FloodDamageRatio(data_files, damage_functions, call.key,
                            call.building_type, depth)
      [] call.op = "_get_damage_ratio" ->
           EnhancedGetDamageRatio(damage_functions, depth, call.building_type, call.key)
      [] call.op = "_get_jrc_damage_ratio" ->
           JrcGetDamageRatio(damage_functions, depth, call.building_type, call.key)

\* C1: whenever the selected damage function has at least 2 points, the lookup
\* returns the ratio of the minimum-depth point at or below the smallest depth, the
\* ratio of the maximum-depth point at or above the largest depth, and the linear
\* interpolation between the two bracketing points in between.
C1_InterpolationPolicy ==
    (call.op \in RatioCalls /\ Len(result.rows) >= 2)
        => /\ result.raised = "none"
           /\ RatEq(result.ratio, PolicyRatio(SelectedPoints, call.depth))

\* C2: for a well-formed damage function (and for the generic curves and the flat
\* fallback) every returned ratio lies in [0, 1] and the ratio at any smaller depth
\* is at most the ratio returned at the depth of the call.
C2_MonotoneWithinUnit ==
    (call.op \in RatioCalls /\ result.raised = "none" /\ WellFormed(SelectedPoints))
        => /\ InUnitInterval(result.ratio)
           /\ \A d1 \in QueryDepths :
                 d1 <= call.depth => RatLe(RatioAt(d1).ratio, result.ratio)

\* C3: whenever the damage function selected for a calculation has fewer than 2
\* points, the lookup raises instead of returning a ratio.
C3_InsufficientFunctionRaises ==
    (call.op \in RatioCalls /\ result.source # "flat" /\ Len(result.rows) < 2)
        => result.raised # "none"

\* The table rows that match a building type and a key (country, region or land use).
EnhancedMatch(building_type, country_code) ==
    LET M(r) == r.building_type = building_type /\ r.country_code = country_code
    IN SelectSeq(damage_functions, M)

JrcMatch(building_type, region) ==
    LET M(r) == r.building_type = JrcDamageClass(building_type) /\ r.region = region
    IN SelectSeq(damage_functions, M)

FloodMatch(land_use_type, building_type) ==
    LET M(r) == r.land_use_type = land_use_type /\ r.building_type = building_type
    IN IF DamageFunctionsFile \in data_files THEN SelectSeq(damage_functions, M) ELSE <<>>

\* The first of two candidate functions that has rows, and which one it was.
FirstWithRows(first, second) ==
    IF Len(first) > 0 THEN [which |-> 1, rows |-> first]
    ELSE IF Len(second) > 0 THEN [which |-> 2, rows |-> second]
    ELSE [which |-> 3, rows |-> <<>>]

\* C4: each lookup uses its sources in the order specific (country / region / table
\* function), then default (DEFAULT / GLOBAL rows), then the synthetic fallback
\* (generic curve, or the flat ratio min(1, depth x 0.3)): a later source is used only
\* when every earlier one has no row for the combination, and the flat ratio only
\* when no table row matches at all.
C4_LookupOrder ==
    /\ call.op = "_get_damage_ratio" =>
         LET want == FirstWithRows(EnhancedMatch(call.building_type, call.key),
                                   EnhancedMatch(call.building_type, "DEFAULT"))
         IN /\ result.rows = want.rows
            /\ result.source = <<"country_specific", "relevant_functions", "flat">>[want.which]
            /\ want.which = 3 => result.ratio = FlatRatio(call.depth)
    /\ call.op = "_get_jrc_damage_ratio" =>
         LET want == FirstWithRows(JrcMatch(call.building_type, call.key),
                                   JrcMatch(call.building_type, "GLOBAL"))
         IN /\ result.rows = want.rows
            /\ result.source = <<"mask", "mask_global", "flat">>[want.which]
            /\ want.which = 3 => result.ratio = FlatRatio(call.depth)
    /\ call.op = "_interpolate_damage_ratio" =>
         LET want == FirstWithRows(FloodMatch(call.key, call.building_type),
                                   GetGenericDamageFunction(call.key))
         IN /\ Range(result.rows) = Range(want.rows)
            /\ result.source = <<"table", "generic", "flat">>[want.which]

\* A lookup that fell back to the DEFAULT rows although the table holds rows of
\* another country for the building type.
C4_Witness ==
    /\ call.op = "_get_damage_ratio"
    /\ call.key = "MX"
    /\ result.source = "relevant_functions"
    /\ Len(EnhancedMatch(call.building_type, "US")) > 0

(***************************************************************************)
(* Whole damage calculations.                                              *)
(*                                                                         *)
(* An optional number is <<>> (None) or <<v>>; an optional string is       *)
(* "None" or the string.  Coordinates are whole degrees, areas whole m2,   *)
(* money is an exact rational.                                             *)
(***************************************************************************)
IsNone(x) == x = <<>>
Truthy(x) == x # <<>> /\ x[1] # 0

RECURSIVE Gcd(_, _)
Gcd(a, b) == IF b = 0 THEN a ELSE Gcd(b, a % b)
Abs(a) == IF a < 0 THEN -a ELSE a
RatNorm(n, d) == LET g == Gcd(Abs(n), d) IN IF g = 0 THEN Rat(n, d) ELSE Rat(n \div g, d \div g)
RatMul(a, b) == RatNorm(a.n * b.n, a.d * b.d)
RatAdd(a, b) == RatNorm(a.n * b.d + b.n * a.d, a.d * b.d)

MaxFloodDepth == 200     \* 20 m, in tenths of a metre

\* validators.validate_coordinates
ValidateCoordinates(latitude, longitude) ==
    IF IsNone(latitude) \/ IsNone(longitude) THEN "DataValidationError"
    ELSE IF ~(-90 <= latitude[1] /\ latitude[1] <= 90) THEN "DataValidationError"
    ELSE IF ~(-180 <= longitude[1] /\ longitude[1] <= 180) THEN "DataValidationError"
    ELSE "ok"

\* As validate_flood_depth without the check of the upper limit.
ValidateFloodDepth_NoUpperLimit(depth) ==
    IF IsNone(depth) THEN "DataValidationError"
    ELSE IF depth[1] < 0 THEN "DataValidationError"
    ELSE "ok"

\* validators.validate_flood_depth
ValidateFloodDepth(depth) ==
    IF IsNone(depth) THEN "DataValidationError"
    ELSE IF depth[1] < 0 THEN "DataValidationError"
    ELSE IF depth[1] > MaxFloodDepth THEN "DataValidationError"
    ELSE "ok"

\* validators.validate_input_data on a dict: `present` is the set of its keys.
ValidateInputData(data) ==
    IF ~({"latitude", "longitude", "flood_depth"} \subseteq data.present)
    THEN "DataValidationError"
    ELSE IF ValidateCoordinates(data.latitude, data.longitude) # "ok"
    THEN "DataValidationError"
    ELSE IF ValidateFloodDepth(data.flood_depth) # "ok" THEN "DataValidationError"
    ELSE IF "area" \in data.present /\ (IsNone(data.area) \/ data.area[1] <= 0)
    THEN "DataValidationError"
    ELSE "ok"

\* The outcome of a damage calculation: the returned dict, or the exception raised.
\* `fallbacks` is bookkeeping of the model: the fallback steps the calculation took.
Money0 == Rat(0, 1)
Failure(e) ==
    [raised |-> e, building_type |-> "None", area_m2 |-> 0, value_per_m2 |-> Money0,
     total_value |-> Money0, damage_ratio |-> Money0, economic_damage |-> Money0,
     country_code |-> "None", calculation_method |-> "None", data_sources |-> <<>>,
     fallbacks |-> {}]

(***************************************************************************)
(* FloodDamageCalculator.calculate_damage                                  *)
(***************************************************************************)
LandUseFile == "land_use.parquet"
BuildingTypesFile == "building_types.parquet"

\* DataManager.get_land_use_at_location: "raise" when the file is absent, "None"
\* when no row lies at the location, else the row's land use.
GetLandUseAtLocation(files, ref, latitude, longitude) ==
    LET At(r) == r.latitude = latitude /\ r.longitude = longitude
        matches == SelectSeq(ref.land_use_data, At)
    IN IF LandUseFile \notin files THEN "raise"
       ELSE IF Len(matches) > 0 THEN matches[1].land_use_type
       ELSE "None"

\* DataManager.get_building_type_at_location: <<>> when absent or not found.
GetBuildingTypeAtLocation(files, ref, latitude, longitude) ==
    LET At(r) == r.latitude = latitude /\ r.longitude = longitude
        matches == SelectSeq(ref.building_types, At)
    IN IF BuildingTypesFile \notin files THEN <<>>
       ELSE IF Len(matches) > 0 THEN <<matches[1]>>
       ELSE <<>>

\* FloodDamageCalculator._get_default_value_per_m2
GetDefaultValuePerM2(land_use_type) ==
    CASE land_use_type = "residential" -> 1000
      [] land_use_type = "commercial" -> 1500
      [] land_use_type = "industrial" -> 800
      [] OTHER -> 1000

DefaultArea == 100

\* FloodDamageCalculator._infer_missing_data
InferMissingData(files, ref, latitude, longitude, land_use_type, building_type, area, value_per_m2) ==
    LET found_use == GetLandUseAtLocation(files, ref, latitude, longitude)
        land_use == IF land_use_type # "None" THEN land_use_type
                    ELSE IF found_use \in {"raise", "None"} THEN "residential"
                    ELSE found_use
        s1 == IF land_use_type # "None" THEN <<>>
              ELSE IF found_use \in {"raise", "None"} THEN <<"default_land_use">>
              ELSE <<"land_use_parquet">>
        building_info == IF building_type = "None" \/ IsNone(value_per_m2)
                         THEN GetBuildingTypeAtLocation(files, ref, latitude, longitude)
                         ELSE <<>>
        building1 == IF building_type = "None" /\ building_info # <<>>
                     THEN building_info[1].building_type ELSE building_type
        value1 == IF IsNone(value_per_m2) /\ building_info # <<>>
                  THEN <<building_info[1].value_per_m2>> ELSE value_per_m2
        s2 == IF building_info # <<>> THEN <<"building_types_parquet">> ELSE <<>>
        s3 == IF building1 = "None" THEN <<"default_building_type">> ELSE <<>>
        s4 == IF IsNone(value1) THEN <<"default_value_per_m2">> ELSE <<>>
        s5 == IF IsNone(area) THEN <<"default_area">> ELSE <<>>
    IN [land_use_type |-> land_use,
        building_type |-> IF building1 = "None" THEN "single_family" ELSE building1,
        area |-> IF IsNone(area) THEN DefaultArea ELSE area[1],
        value_per_m2 |-> IF IsNone(value1) THEN GetDefaultValuePerM2(land_use)
                         ELSE value1[1],
        data_sources |-> s1 \o s2 \o s3 \o s4 \o s5]

\* FloodDamageCalculator.calculate_damage
CalculateDamage(files, table, ref, latitude, longitude, flood_depth, land_use_type, building_type, area, value_per_m2) ==
    LET input_data ==
            [present |-> {"latitude", "longitude", "flood_depth"}
                           \cup (IF Truthy(area) THEN {"area"} ELSE {}),
             latitude |-> latitude, longitude |-> longitude,
             flood_depth |-> flood_depth, area |-> area]
        inferred_data == InferMissingData(files, ref, latitude[1], longitude[1],
                                          land_use_type, building_type, area,
                                          value_per_m2)
        damage_function == FloodGetDamageFunction(files, table,
                               inferred_data.land_use_type, inferred_data.building_type)
        damage_ratio == InterpolateDamageRatio(damage_function.rows, flood_depth[1])
        total_value == Rat(inferred_data.area * inferred_data.value_per_m2, 1)
    IN IF ValidateInputData(input_data) # "ok" THEN Failure("DataValidationError")
       ELSE IF damage_ratio.raised # "none" THEN Failure(damage_ratio.raised)
       ELSE [raised |-> "none",
             building_type |-> inferred_data.building_type,
             area_m2 |-> inferred_data.area,
             value_per_m2 |-> Rat(inferred_data.value_per_m2, 1),
             total_value |-> total_value,
             damage_ratio |-> damage_ratio.ratio,
             economic_damage |-> RatMul(total_value,
                                        RatNorm(damage_ratio.ratio.n,
                                                damage_ratio.ratio.d * 1000)),
             country_code |-> "None",
             calculation_method |-> "depth-damage_function",
             data_sources |-> inferred_data.data_sources,
             fallbacks |->
                 {x \in Range(inferred_data.data_sources) :
                      x \in {"default_land_use", "default_building_type",
                             "default_value_per_m2", "default_area"}}
                 \cup (IF damage_function.source = "generic"
                       THEN {"generic_curve"} ELSE {})]

(***************************************************************************)
(* EnhancedFloodDamageCalculator.calculate_enhanced_damage                 *)
(***************************************************************************)
CountryDataFile == "countries_gdp_data.parquet"

\* EnhancedFloodDamageCalculator._create_default_country_data
CreateDefaultCountryData == <<
    [country_code |-> "US", gdp_per_capita |-> 65000],
    [country_code |-> "MX", gdp_per_capita |-> 10000],
    [country_code |-> "CA", gdp_per_capita |-> 50000],
    [country_code |-> "BR", gdp_per_capita |-> 8500],
    [country_code |-> "DEFAULT", gdp_per_capita |-> 25000] >>

\* EnhancedFloodDamageCalculator._infer_country_from_coordinates
EnhancedInferCountry(latitude, longitude) ==
    IF 25 <= latitude /\ latitude <= 49 /\ -125 <= longitude /\ longitude <= -66
    THEN "US"
    ELSE IF 14 <= latitude /\ latitude <= 33 /\ -118 <= longitude /\ longitude <= -86
    THEN "MX"
    ELSE IF 42 <= latitude /\ latitude <= 70 /\ -141 <= longitude /\ longitude <= -52
    THEN "CA"
    ELSE IF -34 <= latitude /\ latitude <= 5 /\ -74 <= longitude /\ longitude <= -35
    THEN "BR"
    ELSE "DEFAULT"

\* EnhancedFloodDamageCalculator._get_economic_data: `source` names the branch.
GetEconomicData(country_data, country_code) ==
    LET OfCountry(r) == r.country_code = country_code
        OfDefault(r) == r.country_code = "DEFAULT"
        own == SelectSeq(country_data, OfCountry)
        default == SelectSeq(country_data, OfDefault)
    IN IF own # <<>> THEN [gdp_per_capita |-> own[1].gdp_per_capita, source |-> "country"]
       ELSE IF default # <<>>
       THEN [gdp_per_capita |-> default[1].gdp_per_capita, source |-> "DEFAULT"]
       ELSE [gdp_per_capita |-> 25000, source |-> "Unknown"]

\* EnhancedFloodDamageCalculator._calculate_adjusted_value_per_m2
CalculateAdjustedValuePerM2(economic_data) ==
    RatNorm(1000 * economic_data.gdp_per_capita, 65000)

\* EnhancedFloodDamageCalculator.calculate_enhanced_damage
CalculateEnhancedDamage(files, table, ref, latitude, longitude, flood_depth, country_code, building_type, area) ==
    LET inferred_country == IF country_code = "None"
                            THEN EnhancedInferCountry(latitude[1], longitude[1])
                            ELSE country_code
        inferred_building == IF building_type = "None" THEN "residential"
                             ELSE building_type
        damage_ratio == EnhancedGetDamageRatio(table, flood_depth[1], inferred_building,
                                               inferred_country)
        economic_data == GetEconomicData(ref.country_data, inferred_country)
        area_m2 == IF Truthy(area) THEN area[1] ELSE 100
        value_per_m2 == CalculateAdjustedValuePerM2(economic_data)
        total_value == RatMul(Rat(area_m2, 1), value_per_m2)
    IN IF ValidateCoordinates(latitude, longitude) # "ok"
       THEN Failure("DataValidationError")
       ELSE IF ValidateFloodDepth(flood_depth) # "ok" THEN Failure("DataValidationError")
       ELSE [raised |-> "none",
             building_type |-> inferred_building,
             area_m2 |-> area_m2,
             value_per_m2 |-> value_per_m2,
             total_value |-> total_value,
             damage_ratio |-> damage_ratio.ratio,
             economic_damage |-> RatMul(total_value,
                                        RatNorm(damage_ratio.ratio.n,
                                                damage_ratio.ratio.d * 1000)),
             country_code |-> inferred_country,
             calculation_method |-> "enhanced_depth_damage_function",
             data_sources |-> <<"damage_functions", "country_data", "iso_table">>,
             fallbacks |->
                 (IF EnhancedDamageFunctionsFile \notin files
                  THEN {"default_damage_table"} ELSE {})
                 \cup (IF damage_ratio.source = "flat" THEN {"flat_rate"} ELSE {})
                 \cup (IF economic_data.source # "country"
                       THEN {"default_country_record"} ELSE {})
                 \cup (IF ~Truthy(area) THEN {"default_area"} ELSE {})]

(***************************************************************************)
(* JRCFloodDamageCalculator.calculate_jrc_damage                           *)
(***************************************************************************)
\* JRCFloodDamageCalculator.region_mapping, in the order of the dict
RegionMapping == <<
    [name |-> "EUROPE", countries |->
        {"DE", "FR", "IT", "ES", "NL", "BE", "AT", "CH", "SE", "NO", "DK", "FI",
         "PL", "CZ", "HU", "RO", "BG", "GR", "PT", "IE", "LU", "SK", "SI", "EE",
         "LV", "LT", "CY", "MT", "HR", "GB", "IS", "LI", "MC", "SM", "VA", "AD",
         "AL", "BA", "ME", "MK", "RS", "XK", "MD", "UA", "BY", "RU"}],
    [name |-> "North AMERICA", countries |->
        {"US", "CA", "MX", "GT", "BZ", "SV", "HN", "NI", "CR", "PA"}],
    [name |-> "Centr&South_AMERICA", countries |->
        {"BR", "AR", "CL", "PE", "CO", "VE", "EC", "BO", "PY", "UY", "GY", "SR",
         "GF"}],
    [name |-> "ASIA", countries |->
        {"CN", "IN", "JP", "KR", "TH", "VN", "MY", "SG", "ID", "PH", "BD", "PK",
         "LK", "MM", "KH", "LA", "BN", "TL", "MN", "KZ", "UZ", "TM", "TJ", "KG",
         "AF", "IR", "IQ", "SY", "JO", "LB", "IL", "PS", "SA", "YE", "OM", "AE",
         "QA", "BH", "KW", "TR", "GE", "AM", "AZ"}],
    [name |-> "AFRICA", countries |->
        {"NG", "ET", "EG", "ZA", "KE", "UG", "DZ", "SD", "MA", "AO", "GH", "MZ",
         "MG", "CM", "CI", "NE", "BF", "ML", "MW", "ZM", "SO", "SN", "TD", "ZW",
         "GN", "RW", "BJ", "TN", "BI", "ER", "SL", "TG", "CF", "LY", "LR", "MR",
         "GA", "BW", "LS", "GQ", "GM", "GW", "SZ", "DJ", "KM", "CV", "ST", "SC",
         "MU"}],
    [name |-> "OCEANIA", countries |->
        {"AU", "NZ", "PG", "FJ", "SB", "NC", "PF", "VU", "WS", "KI", "FM", "TO",
         "MH", "PW", "CK", "NU", "TK", "TV", "NR", "AS", "GU", "MP", "VI", "PR",
         "UM"}]
>>
RECURSIVE RegionFrom(_, _)
RegionFrom(i, country_code) ==
    IF i > Len(RegionMapping) THEN "GLOBAL"
    ELSE IF country_code \in RegionMapping[i].countries THEN RegionMapping[i].name
    ELSE RegionFrom(i + 1, country_code)

\* JRCFloodDamageCalculator._get_region_for_country
GetRegionForCountry(country_code) == RegionFrom(1, country_code)

\* JRCFloodDamageCalculator._infer_country_from_coordinates
JrcInferCountry(latitude, longitude) ==
    IF 25 <= latitude /\ latitude <= 49 /\ -125 <= longitude /\ longitude <= -66
    THEN "US"
    ELSE IF 14 <= latitude /\ latitude <= 33 /\ -118 <= longitude /\ longitude <= -86
    THEN "MX"
    ELSE IF 42 <= latitude /\ latitude <= 70 /\ -141 <= longitude /\ longitude <= -52
    THEN "CA"
    ELSE IF -34 <= latitude /\ latitude <= 5 /\ -74 <= longitude /\ longitude <= -35
    THEN "BR"
    ELSE IF 36 <= latitude /\ latitude <= 71 /\ -10 <= longitude /\ longitude <= 40
    THEN "DE"
    ELSE IF 20 <= latitude /\ latitude <= 50 /\ 70 <= longitude /\ longitude <= 140
    THEN "CN"
    ELSE IF -35 <= latitude /\ latitude <= 37 /\ 110 <= longitude /\ longitude <= 155
    THEN "AU"
    ELSE "US"

JrcValidBuildingTypes ==
    {"residential", "commercial", "industrial", "agriculture", "infrastructure",
     "transport"}

\* JRCFloodDamageCalculator._get_country_info, the country name it yields
GetCountryName(iso_table, country_code) ==
    LET OfCode(r) == r.iso_alpha2 = country_code \/ r.iso_alpha3 = country_code
        country_info == SelectSeq(iso_table, OfCode)
    IN IF country_info # <<>> THEN country_info[1].country_name ELSE "UNKNOWN"

\* JRCFloodDamageCalculator._get_max_damage_for_country: max_damage_data maps
\* each building type whose file was loaded to its rows; country names are
\* compared in upper case, and the rows hold them so.
GetMaxDamageForCountry(ref, country_code, building_type) ==
    LET rows == ref.max_damage_data[building_type]
        ByCode(r) == r.country = country_code
        ByName(r) == r.country = GetCountryName(ref.iso_table, country_code)
        by_code == SelectSeq(rows, ByCode)
        country_data == IF by_code # <<>> THEN by_code ELSE SelectSeq(rows, ByName)
    IN IF building_type \notin DOMAIN ref.max_damage_data
       THEN [total_building_eur_m2 |-> 500, source |-> "default"]
       ELSE IF country_data # <<>>
       THEN [total_building_eur_m2 |-> country_data[1].total_building_eur_m2,
             source |-> "country"]
       ELSE [total_building_eur_m2 |->
                 CASE building_type = "residential" -> 400
                   [] building_type = "commercial" -> 600
                   [] building_type = "industrial" -> 500
                   [] building_type = "agriculture" -> 50
                   [] building_type = "infrastructure" -> 25
                   [] building_type = "transport" -> 750
                   [] OTHER -> 500,
             source |-> "default"]

\* JRCFloodDamageCalculator.calculate_jrc_damage
CalculateJrcDamage(table, ref, latitude, longitude, flood_depth, country_code, building_type, area_m2, region) ==
    LET with_coordinates == ~IsNone(latitude) /\ ~IsNone(longitude)
        country == IF country_code = "None"
                   THEN JrcInferCountry(latitude[1], longitude[1]) ELSE country_code
        region_used == IF region = "None" THEN GetRegionForCountry(country) ELSE region
        damage_ratio == JrcGetDamageRatio(table, flood_depth[1], building_type,
                                          region_used)
        max_damage_data == GetMaxDamageForCountry(ref, country, building_type)
        area == IF Truthy(area_m2) THEN area_m2[1] ELSE 100
        total_value == Rat(area * max_damage_data.total_building_eur_m2, 1)
    IN IF IsNone(flood_depth) THEN Failure("DataValidationError")
       ELSE IF ValidateFloodDepth(flood_depth) # "ok" THEN Failure("DataValidationError")
       ELSE IF building_type \notin JrcValidBuildingTypes
       THEN Failure("DataValidationError")
       ELSE IF (~IsNone(latitude) \/ ~IsNone(longitude))
               /\ (IsNone(latitude) \/ IsNone(longitude)
                   \/ ValidateCoordinates(latitude, longitude) # "ok")
       THEN Failure("DataValidationError")
       ELSE IF country_code = "None" /\ ~with_coordinates
       THEN Failure("DataValidationError")
       ELSE [raised |-> "none",
             building_type |-> building_type,
             area_m2 |-> area,
             value_per_m2 |-> Rat(max_damage_data.total_building_eur_m2, 1),
             total_value |-> total_value,
             damage_ratio |-> damage_ratio.ratio,
             economic_damage |-> RatMul(total_value,
                                        RatNorm(damage_ratio.ratio.n,
                                                damage_ratio.ratio.d * 1000)),
             country_code |-> country,
             calculation_method |-> "jrc_depth_damage_function",
             data_sources |-> <<>>,
             fallbacks |->
                 (IF damage_ratio.source = "flat" THEN {"flat_rate"} ELSE {})
                 \cup (IF max_damage_data.source = "default"
                       THEN {"default_value_per_m2"} ELSE {})
                 \cup (IF ~Truthy(area_m2) THEN {"default_area"} ELSE {})]

(***************************************************************************)
(* Batch operations.  A location is a dict: `keys` is the set of its keys, *)
(* and a field whose key is absent holds None.                             *)
(***************************************************************************)
Location(keys, latitude, longitude, flood_depth, country_code, land_use_type, building_type, area, area_m2, value_per_m2, region) ==
    [keys |-> keys, latitude |-> latitude, longitude |-> longitude,
     flood_depth |-> flood_depth, country_code |-> country_code,
     land_use_type |-> land_use_type, building_type |-> building_type,
     area |-> area, area_m2 |-> area_m2, value_per_m2 |-> value_per_m2,
     region |-> region]

\* The parameters of FloodDamageCalculator.calculate_damage
CalculateDamageParameters ==
    {"latitude", "longitude", "flood_depth", "land_use_type", "building_type", "area",
     "value_per_m2"}

\* self.calculate_damage(**location)
CalculateDamageOfLocation(files, table, ref, location) ==
    IF ~({"latitude", "longitude", "flood_depth"} \subseteq location.keys)
       \/ ~(location.keys \subseteq CalculateDamageParameters)
    THEN Failure("TypeError")
    ELSE CalculateDamage(files, table, ref, location.latitude, location.longitude,
                         location.flood_depth, location.land_use_type,
                         location.building_type, location.area, location.value_per_m2)

\* The call in the loop of calculate_damage_batch_enhanced
CalculateEnhancedDamageOfLocation(files, table, ref, location) ==
    IF ~({"latitude", "longitude", "flood_depth"} \subseteq location.keys)
    THEN Failure("KeyError")
    ELSE CalculateEnhancedDamage(files, table, ref, location.latitude,
                                 location.longitude, location.flood_depth,
                                 location.country_code, location.building_type,
                                 location.area)

\* The call in the loop of calculate_damage_batch_jrc
CalculateJrcDamageOfLocation(table, ref, location) ==
    IF ~({"latitude", "longitude", "flood_depth"} \subseteq location.keys)
    THEN Failure("KeyError")
    ELSE CalculateJrcDamage(table, ref, location.latitude, location.longitude,
                            location.flood_depth, location.country_code,
                            IF "building_type" \in location.keys
                            THEN location.building_type ELSE "residential",
                            location.area_m2, location.region)

\* The body of the loop of calculate_damage_batch_by_country
CalculateDamageOfScenario(table, ref, scenario) ==
    IF "flood_depth" \notin scenario.keys THEN Failure("DataValidationError")
    ELSE IF "country_code" \notin scenario.keys THEN Failure("DataValidationError")
    ELSE CalculateJrcDamage(table, ref, <<>>, <<>>, scenario.flood_depth,
                            scenario.country_code,
                            IF "building_type" \in scenario.keys
                            THEN scenario.building_type ELSE "residential",
                            IF "area_m2" \in scenario.keys
                            THEN scenario.area_m2 ELSE <<100>>,
                            scenario.region)

BatchOps ==
    {"calculate_damage_batch", "calculate_damage_batch_enhanced",
     "calculate_damage_batch_jrc", "calculate_damage_batch_by_country"}

\* What the try block of a batch operation computes for one item.
CalculateItem(op, files, table, ref, location) ==
    CASE op = "calculate_damage_batch" ->
             CalculateDamageOfLocation(files, table, ref, location)
      [] op = "calculate_damage_batch_enhanced" ->
             CalculateEnhancedDamageOfLocation(files, table, ref, location)
      [] op = "calculate_damage_batch_jrc" ->
             CalculateJrcDamageOfLocation(table, ref, location)
      [] op = "calculate_damage_batch_by_country" ->
             CalculateDamageOfScenario(table, ref, location)

\* As BatchLoop, with an except clause that lets the exception escape.
RECURSIVE BatchLoop_Abort(_, _, _, _, _, _, _)
BatchLoop_Abort(op, files, table, ref, locations, i, results) ==
    IF i >= Len(locations) THEN [raised |-> "none", entries |-> results]
    ELSE LET r == CalculateItem(op, files, table, ref, locations[i + 1])
         IN IF r.raised # "none" THEN [raised |-> r.raised, entries |-> <<>>]
            ELSE BatchLoop_Abort(op, files, table, ref, locations, i + 1,
                     Append(results, [batch_index |-> i, error |-> "none", result |-> r]))

\* for i, location in enumerate(locations): try ... except Exception ...
\* of the four batch operations; `results` is the list built so far.
RECURSIVE BatchLoop(_, _, _, _, _, _, _)
BatchLoop(op, files, table, ref, locations, i, results) ==
    IF i >= Len(locations) THEN [raised |-> "none", entries |-> results]
    ELSE LET r == CalculateItem(op, files, table, ref, locations[i + 1])
         IN BatchLoop(op, files, table, ref, locations, i + 1,
                Append(results, [batch_index |-> i, error |-> r.raised, result |-> r]))

(***************************************************************************)
(* The specification of whole calculations: a calculator is constructed    *)
(* over a data directory holding any subset of its reference files, then   *)
(* single and batch calculations are invoked on it.                        *)
(***************************************************************************)
MaxBatch == 2

\* What the reference files hold when they are present.
FloodFileRows == FloodRows("residential", << <<0, 0>>, <<20, 1000>> >>)
LandUseFileRows == << [latitude |-> 40, longitude |-> -100, land_use_type |-> "industrial"] >>
BuildingTypesFileRows ==
    << [latitude |-> 40, longitude |-> -100, building_type |-> "single_family",
        value_per_m2 |-> 1200] >>
EnhancedFileRows ==
    EnhancedRows("US", << <<0, 0>>, <<20, 1000>> >>)
        \o EnhancedRows("DEFAULT", << <<0, 0>>, <<20, 500>> >>)
CountryFileRows == << [country_code |-> "US", gdp_per_capita |-> 65000] >>
JrcFileRows ==
    JrcRows("North AMERICA", << <<0, 0>>, <<20, 1000>> >>)
        \o JrcRows("GLOBAL", << <<0, 0>>, <<20, 500>> >>)
MaxDamageResidentialFile == "max_damage_residential_jrc.parquet"
MaxDamageResidentialRows ==
    << [country |-> "US", total_building_eur_m2 |-> 800],
       [country |-> "GERMANY", total_building_eur_m2 |-> 700] >>
IsoTableFile == "iso_table_jrc.parquet"
IsoTableRows == << [iso_alpha2 |-> "DE", iso_alpha3 |-> "DEU", country_name |-> "GERMANY"] >>

FilesOf(class) ==
    CASE class = "FloodDamageCalculator" ->
             {DamageFunctionsFile, LandUseFile, BuildingTypesFile}
      [] class = "EnhancedFloodDamageCalculator" ->
             {EnhancedDamageFunctionsFile, CountryDataFile}
      [] class = "JRCFloodDamageCalculator" ->
             {JrcDamageFunctionsFile, MaxDamageResidentialFile, IsoTableFile}

Classes ==
    {"FloodDamageCalculator", "EnhancedFloodDamageCalculator", "JRCFloodDamageCalculator"}

InitCalc ==
    /\ calc \in Classes
    /\ constructed = FALSE
    /\ data_files \in SUBSET FilesOf(calc)
    /\ damage_functions = <<>>
    /\ reference_data = NoReference
    /\ call = NoCall
    /\ result = NoResult

\* FloodDamageCalculator.__init__: the DataManager reads its files on demand, so
\* the tables are what the files hold.
ConstructFlood ==
    /\ calc = "FloodDamageCalculator"
    /\ constructed' = TRUE
    /\ damage_functions' = FloodFileRows
    /\ reference_data' = [NoReference EXCEPT !.land_use_data = LandUseFileRows,
                                             !.building_types = BuildingTypesFileRows]
    /\ result' = [raised |-> "none"]

\* EnhancedFloodDamageCalculator.__init__ and _load_enhanced_data
ConstructEnhanced ==
    /\ calc = "EnhancedFloodDamageCalculator"
    /\ constructed' = TRUE
    /\ damage_functions' = EnhancedLoadDamageFunctions(data_files, EnhancedFileRows)
    /\ reference_data' =
           [NoReference EXCEPT !.country_data =
                IF CountryDataFile \in data_files THEN CountryFileRows
                ELSE CreateDefaultCountryData]
    /\ result' = [raised |-> "none"]

\* JRCFloodDamageCalculator.__init__ and _load_jrc_data
ConstructJrc ==
    /\ calc = "JRCFloodDamageCalculator"
    /\ IF JrcDamageFunctionsFile \in data_files
       THEN /\ constructed' = TRUE
            /\ damage_functions' = JrcFileRows
            /\ reference_data' =
                   [NoReference EXCEPT
                        !.max_damage_data =
                            [t \in IF MaxDamageResidentialFile \in data_files
                                   THEN {"residential"} ELSE {}
                                |-> MaxDamageResidentialRows],
                        !.iso_table = IF IsoTableFile \in data_files
                                      THEN IsoTableRows ELSE <<>>]
            /\ result' = [raised |-> "none"]
       ELSE /\ result' = [raised |-> "CalculationError"]
            /\ UNCHANGED <<constructed, damage_functions, reference_data>>

Construct ==
    /\ ~constructed
    /\ ConstructFlood \/ ConstructEnhanced \/ ConstructJrc
    /\ call' = [op |-> "__init__"]
    /\ UNCHANGED <<calc, data_files>>

\* <<latitude, longitude, flood_depth>>: a position in the continental US box
\* with each kind of depth, and a valid depth with each kind of coordinates (on
\* the equator where no country box lies, one missing, both missing, one out
\* of range).
Positions ==
    { << <<40>>, <<-100>>, <<15>> >>, << <<40>>, <<-100>>, <<>> >>,
      << <<40>>, <<-100>>, <<-1>> >>, << <<40>>, <<-100>>, <<201>> >>,
      << <<0>>, <<-100>>, <<15>> >>, << <<>>, <<-100>>, <<15>> >>,
      << <<40>>, <<>>, <<15>> >>, << <<>>, <<>>, <<15>> >>,
      << <<91>>, <<-100>>, <<15>> >>, << <<40>>, <<-181>>, <<15>> >> }
Areas == {<<>>, <<0>>, <<50>>}
AllKeys ==
    {"latitude", "longitude", "flood_depth", "country_code", "land_use_type",
     "building_type", "area", "area_m2", "value_per_m2", "region"}

CalculateDamageCall ==
    /\ constructed /\ calc = "FloodDamageCalculator"
    /\ \E at \in Positions \ {<< <<>>, <<>>, <<15>> >>, << <<0>>, <<-100>>, <<15>> >>},
          land_use_type \in {"None", "residential", "commercial"},
          building_type \in {"None", "single_family"},
          area \in {<<>>, <<50>>, <<-5>>}, value_per_m2 \in {<<>>, <<2000>>} :
          LET latitude == at[1]
              longitude == at[2]
              flood_depth == at[3]
          IN
          /\ call' = [op |-> "calculate_damage",
                      args |-> Location(AllKeys, latitude, longitude, flood_depth,
                                        "None", land_use_type, building_type, area,
                                        <<>>, value_per_m2, "None")]
          /\ result' = CalculateDamage(data_files, damage_functions, reference_data,
                                       latitude, longitude, flood_depth, land_use_type,
                                       building_type, area, value_per_m2)
    /\ UNCHANGED <<calc, constructed, data_files, damage_functions, reference_data>>

CalculateEnhancedDamageCall ==
    /\ constructed /\ calc = "EnhancedFloodDamageCalculator"
    /\ \E at \in Positions \ {<< <<>>, <<>>, <<15>> >>},
          country_code \in {"None", "US", "ZZ"},
          building_type \in {"None", "residential", "agriculture"}, area \in Areas :
          LET latitude == at[1]
              longitude == at[2]
              flood_depth == at[3]
          IN
          /\ call' = [op |-> "calculate_enhanced_damage",
                      args |-> Location(AllKeys, latitude, longitude, flood_depth,
                                        country_code, "None", building_type, area,
                                        <<>>, <<>>, "None")]
          /\ result' = CalculateEnhancedDamage(data_files, damage_functions,
                                               reference_data, latitude, longitude,
                                               flood_depth, country_code,
                                               building_type, area)
    /\ UNCHANGED <<calc, constructed, data_files, damage_functions, reference_data>>

CalculateJrcDamageCall ==
    /\ constructed /\ calc = "JRCFloodDamageCalculator"
    /\ \E at \in Positions \ {<< <<0>>, <<-100>>, <<15>> >>},
          country_code \in {"None", "US", "DE"},
          building_type \in {"residential", "commercial", "castle"},
          area_m2 \in {<<>>, <<50>>}, region \in {"None", "EUROPE"} :
          LET latitude == at[1]
              longitude == at[2]
              flood_depth == at[3]
          IN
          /\ call' = [op |-> "calculate_jrc_damage",
                      args |-> Location(AllKeys, latitude, longitude, flood_depth,
                                        country_code, "None", building_type, <<>>,
                                        area_m2, <<>>, region)]
          /\ result' = CalculateJrcDamage(damage_functions, reference_data, latitude,
                                          longitude, flood_depth, country_code,
                                          building_type, area_m2, region)
    /\ UNCHANGED <<calc, constructed, data_files, damage_functions, reference_data>>

BatchLocations ==
    { Location({"latitude", "longitude", "flood_depth"}, <<40>>, <<-100>>, <<15>>,
               "None", "None", "None", <<>>, <<>>, <<>>, "None"),
      Location({"longitude", "flood_depth"}, <<>>, <<-100>>, <<15>>,
               "None", "None", "None", <<>>, <<>>, <<>>, "None"),
      Location({"latitude", "longitude", "flood_depth"}, <<40>>, <<-100>>, <<201>>,
               "None", "None", "None", <<>>, <<>>, <<>>, "None"),
      Location({"latitude", "longitude", "flood_depth", "country_code", "area_m2"},
               <<>>, <<>>, <<5>>, "DE", "None", "None", <<>>, <<50>>, <<>>, "None") }

BatchInputs == UNION {[1..n -> BatchLocations] : n \in 0..MaxBatch}

BatchOpsOf(class) ==
    CASE class = "FloodDamageCalculator" -> {"calculate_damage_batch"}
      [] class = "EnhancedFloodDamageCalculator" -> {"calculate_damage_batch_enhanced"}
      [] class = "JRCFloodDamageCalculator" ->
             {"calculate_damage_batch_jrc", "calculate_damage_batch_by_country"}

\* calculate_damage_batch, calculate_damage_batch_enhanced,
\* calculate_damage_batch_jrc and calculate_damage_batch_by_country
CalculateDamageBatchCall ==
    /\ constructed
    /\ \E op \in BatchOpsOf(calc), locations \in BatchInputs :
          /\ call' = [op |-> op, locations |-> locations]
          /\ result' = BatchLoop(op, data_files, damage_functions, reference_data,
                                 locations, 0, <<>>)
    /\ UNCHANGED <<calc, constructed, data_files, damage_functions, reference_data>>

NextCalc ==
    \/ Construct
    \/ CalculateDamageCall
    \/ CalculateEnhancedDamageCall
    \/ CalculateJrcDamageCall
    \/ CalculateDamageBatchCall

SpecCalc == InitCalc /\ [][NextCalc]_vars

(***************************************************************************)
(* Properties of whole calculations, stated on the last call and result.   *)
(***************************************************************************)
SingleOps == {"calculate_damage", "calculate_enhanced_damage", "calculate_jrc_damage"}

\* The single-item calculation `op` of the instance, on the arguments a.
SingleCalc(op, a) ==
    CASE op = "calculate_damage" ->
             CalculateDamage(data_files, damage_functions, reference_data, a.latitude,
                             a.longitude, a.flood_depth, a.land_use_type,
                             a.building_type, a.area, a.value_per_m2)
      [] op = "calculate_enhanced_damage" ->
             CalculateEnhancedDamage(data_files, damage_functions, reference_data,
                                     a.latitude, a.longitude, a.flood_depth,
                                     a.country_code, a.building_type, a.area)
      [] op = "calculate_jrc_damage" ->
             CalculateJrcDamage(damage_functions, reference_data, a.latitude,
                                a.longitude, a.flood_depth, a.country_code,
                                a.building_type, a.area_m2, a.region)

\* What a result tells about where its numbers came from.
Provenance(r) == <<r.calculation_method, r.data_sources>>

\* The same call with other optional arguments.
OptionalVariants(a) ==
    {[a EXCEPT !.land_use_type = land_use_type, !.building_type = building_type,
               !.area = area, !.area_m2 = area, !.value_per_m2 = value_per_m2] :
         land_use_type \in {a.land_use_type, "residential", "commercial"},
         building_type \in {a.building_type, "residential", "agriculture", "commercial"},
         area \in {<<>>, <<50>>}, value_per_m2 \in {<<>>, <<2000>>}}

\* C5: every fallback step a damage calculation takes (default damage table,
\* generic curve, flat-rate ratio, default country record, default value or
\* area) is recorded in the provenance of the result it returns, so a result
\* and the result of the same call with other optional arguments that took
\* different fallback steps carry different provenance.
C5_FallbacksRecorded ==
    (call.op \in SingleOps /\ result.raised = "none")
        => \A other \in OptionalVariants(call.args) :
               LET r == SingleCalc(call.op, other)
               IN (r.raised = "none" /\ r.fallbacks # result.fallbacks)
                      => Provenance(r) # Provenance(result)

InRange(x, lo, hi) == x # <<>> /\ lo <= x[1] /\ x[1] <= hi

\* Arguments that are present and within their ranges.
ValidArgs(op, a) ==
    /\ InRange(a.flood_depth, 0, MaxFloodDepth)
    /\ IF op = "calculate_jrc_damage"
       THEN /\ a.building_type \in JrcValidBuildingTypes
            /\ \/ InRange(a.latitude, -90, 90) /\ InRange(a.longitude, -180, 180)
               \/ a.latitude = <<>> /\ a.longitude = <<>> /\ a.country_code # "None"
       ELSE InRange(a.latitude, -90, 90) /\ InRange(a.longitude, -180, 180)
    /\ op = "calculate_damage" => (a.area = <<>> \/ a.area[1] >= 0)

\* C6: no calculator fails because reference files are absent: whatever
\* subset of its files the data directory holds, the constructor returns, and
\* a damage calculation on valid arguments returns a result.
C6_AbsentDataNeverFails ==
    /\ call.op = "__init__" => result.raised = "none"
    /\ (call.op \in SingleOps /\ ValidArgs(call.op, call.args))
           => result.raised = "none"

\* Arguments the calculation must reject: a coordinate or a depth out of range,
\* or a required one missing (the JRC calculation requires the depth, and the
\* coordinates unless a country code is given).
InvalidArgs(op, a) ==
    \/ a.latitude # <<>> /\ ~InRange(a.latitude, -90, 90)
    \/ a.longitude # <<>> /\ ~InRange(a.longitude, -180, 180)
    \/ a.flood_depth # <<>> /\ ~InRange(a.flood_depth, 0, MaxFloodDepth)
    \/ a.flood_depth = <<>>
    \/ IF op = "calculate_jrc_damage"
       THEN \/ (a.latitude = <<>>) # (a.longitude = <<>>)
            \/ a.latitude = <<>> /\ a.longitude = <<>> /\ a.country_code = "None"
       ELSE a.latitude = <<>> \/ a.longitude = <<>>

\* C7: a single-item damage calculation called with a latitude outside
\* [-90, 90], a longitude outside [-180, 180], a flood depth below 0 or above
\* 20 m, or a required argument missing raises a validation error and returns
\* no damage value; the input is not replaced by a default nor clamped.
C7_InvalidInputRejected ==
    (call.op \in SingleOps /\ InvalidArgs(call.op, call.args))
        => result = Failure("DataValidationError")

\* A JRC calculation by country code, without coordinates, of a depth above
\* the limit was rejected.
C7_Witness ==
    /\ call.op = "calculate_jrc_damage"
    /\ call.args.flood_depth = <<201>>
    /\ call.args.country_code = "US"
    /\ call.args.area_m2 = <<50>>
    /\ result.raised = "DataValidationError"

MaxHazardRows == 2

\* A row of the hazard table, as get_flood_hazard_malaysia builds it.
HazardRow(location, return_period, flood_intensity_m) ==
    [location |-> location, return_period |-> return_period,
     flood_intensity_m |-> flood_intensity_m,
     annual_probability |-> Rat(1, return_period)]

HazardRows ==
    {HazardRow(location, return_period, flood_intensity_m) :
         location \in {"Malaysia (Country)", "Selangor"},
         return_period \in {1, 10, 100}, flood_intensity_m \in {9, 45}}

HazardTables == UNION {[1..n -> HazardRows] : n \in 0..MaxHazardRows}

\* total_exposure_usd of the provider: 1e9, the 3.5e11 of the simulated LitPop
\* data, nothing, and a negative value.
TotalExposures == {1000, 350000, 0, -1000}

InitEAI ==
    /\ calc = "ClimadaFloodAnalyzer"
    /\ constructed = TRUE
    /\ data_files = {}
    /\ damage_functions = <<>>
    /\ \E hazard \in HazardTables, total_exposure_usd \in TotalExposures :
          reference_data = [provider_hazard |-> hazard,
                            provider_exposure |-> total_exposure_usd,
                            hazard_data |-> <<>>, exposure_data |-> <<>>]
    /\ call = NoCall
    /\ result = NoResult

\* ClimadaFloodAnalyzer.load_flood_hazard
LoadFloodHazard(ref) == [ref EXCEPT !.hazard_data = <<ref.provider_hazard>>]

\* ClimadaFloodAnalyzer.load_exposure
LoadExposure(ref) ==
    [ref EXCEPT !.exposure_data = << [total_exposure_usd |-> ref.provider_exposure] >>]

\* state_exposure_ratios.get(location, 0.04), in hundredths
StateExposureRatio(location) ==
    CASE location = "Selangor" -> 28
      [] location = "Johor" -> 14
      [] location = "Penang" -> 9
      [] location = "Sarawak" -> 10
      [] location = "Sabah" -> 8
      [] location = "Perak" -> 8
      [] location = "Pahang" -> 8
      [] location = "Kelantan" -> 6
      [] location = "Terengganu" -> 5
      [] OTHER -> 4

\* The exposure calculate_expected_annual_impact resolves for the location.
LocationExposure(total_exposure, location) ==
    IF location = "Malaysia (Country)" THEN Rat(total_exposure, 1)
    ELSE RatNorm(total_exposure * StateExposureRatio(location), 100)

\* damage_ratio = min(1.0, intensity / 3.0)
EaiDamageRatio(intensity) == RatNorm(Min(30, intensity), 30)

\* As EaiLoop, but the first hazard row adds nothing to the sum.
RECURSIVE EaiLoop_SkipsFirstRow(_, _, _, _, _)
EaiLoop_SkipsFirstRow(loc_hazard, location_exposure, i, eai, impacts) ==
    IF i > Len(loc_hazard) THEN [eai |-> eai, impacts |-> impacts]
    ELSE LET row == loc_hazard[i]
             damage_ratio == EaiDamageRatio(row.flood_intensity_m)
             impact == RatMul(location_exposure, damage_ratio)
         IN EaiLoop_SkipsFirstRow(loc_hazard, location_exposure, i + 1,
                IF i = 1 THEN eai
                ELSE RatAdd(eai, RatMul(row.annual_probability, impact)),
                Append(impacts, [return_period |-> row.return_period,
                                 probability |-> row.annual_probability,
                                 flood_intensity_m |-> row.flood_intensity_m,
                                 damage_ratio |-> damage_ratio,
                                 impact_usd |-> impact]))

\* for _, row in loc_hazard.iterrows(): ... of calculate_expected_annual_impact
RECURSIVE EaiLoop(_, _, _, _, _)
EaiLoop(loc_hazard, location_exposure, i, eai, impacts) ==
    IF i > Len(loc_hazard) THEN [eai |-> eai, impacts |-> impacts]
    ELSE LET row == loc_hazard[i]
             damage_ratio == EaiDamageRatio(row.flood_intensity_m)
             impact == RatMul(location_exposure, damage_ratio)
         IN EaiLoop(loc_hazard, location_exposure, i + 1,
                RatAdd(eai, RatMul(row.annual_probability, impact)),
                Append(impacts, [return_period |-> row.return_period,
                                 probability |-> row.annual_probability,
                                 flood_intensity_m |-> row.flood_intensity_m,
                                 damage_ratio |-> damage_ratio,
                                 impact_usd |-> impact]))

\* a / b for b # 0, with a positive denominator
RatDiv(a, b) ==
    IF b.n < 0 THEN RatNorm(-(a.n * b.d), a.d * (-b.n)) ELSE RatNorm(a.n * b.d, a.d * b.n)

EmptyImpact == [raised |-> "none", empty |-> TRUE]

\* ClimadaFloodAnalyzer.calculate_expected_annual_impact on loaded data: the
\* set of its possible outcomes.  eai / location_exposure with a zero exposure
\* raises ZeroDivisionError on Python floats and yields nan on numpy floats;
\* which of the two the row values are depends on the dtypes of the frame.
ExpectedAnnualImpactOutcomes(ref, location) ==
    LET OfLocation(r) == r.location = location
        loc_hazard == SelectSeq(ref.hazard_data[1], OfLocation)
        location_exposure ==
            LocationExposure(ref.exposure_data[1].total_exposure_usd, location)
        loop == EaiLoop(loc_hazard, location_exposure, 1, Rat(0, 1), <<>>)
        Returning(eai_ratio) ==
            [raised |-> "none", empty |-> FALSE, location |-> location,
             expected_annual_impact_usd |-> loop.eai,
             exposure_usd |-> location_exposure,
             eai_ratio |-> eai_ratio,
             return_period_impacts |-> loop.impacts]
    IN IF loc_hazard = <<>> THEN {EmptyImpact}
       ELSE IF location_exposure.n = 0
       THEN {[raised |-> "ZeroDivisionError", empty |-> FALSE], Returning("nan")}
       ELSE {Returning(RatDiv(loop.eai, location_exposure))}

LoadFloodHazardCall ==
    /\ calc = "ClimadaFloodAnalyzer"
    /\ reference_data' = LoadFloodHazard(reference_data)
    /\ call' = [op |-> "load_flood_hazard"]
    /\ result' = [raised |-> "none", empty |-> FALSE]
    /\ UNCHANGED <<calc, constructed, data_files, damage_functions>>

LoadExposureCall ==
    /\ calc = "ClimadaFloodAnalyzer"
    /\ reference_data' = LoadExposure(reference_data)
    /\ call' = [op |-> "load_exposure"]
    /\ result' = [raised |-> "none", empty |-> FALSE]
    /\ UNCHANGED <<calc, constructed, data_files, damage_functions>>

CalculateExpectedAnnualImpactCall ==
    /\ calc = "ClimadaFloodAnalyzer"
    /\ \E location \in {"Malaysia (Country)", "Selangor", "Kuala Lumpur"} :
          LET with_hazard == IF reference_data.hazard_data = <<>>
                             THEN LoadFloodHazard(reference_data) ELSE reference_data
              loaded == IF with_hazard.exposure_data = <<>>
                        THEN LoadExposure(with_hazard) ELSE with_hazard
          IN /\ reference_data' = loaded
             /\ call' = [op |-> "calculate_expected_annual_impact",
                         location |-> location]
             /\ result' \in ExpectedAnnualImpactOutcomes(loaded, location)
    /\ UNCHANGED <<calc, constructed, data_files, damage_functions>>

NextEAI == LoadFloodHazardCall \/ LoadExposureCall \/ CalculateExpectedAnnualImpactCall

SpecEAI == InitEAI /\ [][NextEAI]_vars

\* The hazard rows of the location of the last call.
LocHazard ==
    LET OfLocation(r) == r.location = call.location
    IN SelectSeq(reference_data.hazard_data[1], OfLocation)

RECURSIVE SumOfImpacts(_, _, _)
SumOfImpacts(impacts, exposure, i) ==
    IF i > Len(impacts) THEN Rat(0, 1)
    ELSE RatAdd(RatMul(impacts[i].probability, RatMul(exposure, impacts[i].damage_ratio)),
                SumOfImpacts(impacts, exposure, i + 1))

\* C9: the expected annual impact is exactly the sum over the hazard rows of
\* the location of annual_probability x (exposure x damage_ratio), and the
\* breakdown has one entry per hazard row, in order, holding the row's return
\* period, probability and intensity, the damage ratio and the impact
\* exposure x damage_ratio.
C9_EaiIsSumOfRows ==
    (call.op = "calculate_expected_annual_impact" /\ result.raised = "none"
         /\ ~result.empty)
        => /\ Len(result.return_period_impacts) = Len(LocHazard)
           /\ \A i \in 1..Len(LocHazard) :
                 LET entry == result.return_period_impacts[i]
                 IN /\ entry.return_period = LocHazard[i].return_period
                    /\ RatEq(entry.probability, LocHazard[i].annual_probability)
                    /\ entry.flood_intensity_m = LocHazard[i].flood_intensity_m
                    /\ RatEq(entry.damage_ratio,
                             Rat(Min(30, LocHazard[i].flood_intensity_m), 30))
                    /\ RatEq(entry.impact_usd,
                             RatMul(result.exposure_usd, entry.damage_ratio))
           /\ RatEq(result.expected_annual_impact_usd,
                    SumOfImpacts(result.return_period_impacts, result.exposure_usd, 1))

\* An exposure of 1e9 and the single row of probability 0.01 and ratio 0.3
\* gave an impact of 3,000,000 a year, 0.003 of the exposure.
C9_Witness ==
    /\ call.op = "calculate_expected_annual_impact"
    /\ call.location = "Malaysia (Country)"
    /\ result.raised = "none" /\ ~result.empty
    /\ Len(result.return_period_impacts) = 1
    /\ RatEq(result.exposure_usd, Rat(1000, 1))
    /\ RatEq(result.return_period_impacts[1].probability, Rat(1, 100))
    /\ RatEq(result.return_period_impacts[1].damage_ratio, Rat(3, 10))
    /\ RatEq(result.expected_annual_impact_usd, Rat(3, 1))
    /\ RatEq(result.eai_ratio, Rat(3, 1000))

\* C10: when the exposure resolved for the location is zero or negative, the
\* calculation raises a zero-exposure error; it neither divides by zero nor
\* returns a ratio.
C10_ZeroExposureRaises ==
    (call.op = "calculate_expected_annual_impact" /\ LocHazard # <<>>
         /\ LocationExposure(reference_data.exposure_data[1].total_exposure_usd,
                             call.location).n <= 0)
        => result.raised = "ZeroExposureError"

\* C11: whatever the hazard curve (return periods of one year and more,
\* repeated or not; damage ratios within [0, 1]), the eai_ratio of a result
\* computed over a positive exposure lies within [0, 1].
C11_EaiRatioWithinUnit ==
    (call.op = "calculate_expected_annual_impact" /\ result.raised = "none"
         /\ ~result.empty /\ result.exposure_usd.n > 0)
        => /\ \A i \in 1..Len(result.return_period_impacts) :
                 /\ RatLe(Rat(0, 1), result.return_period_impacts[i].damage_ratio)
                 /\ RatLe(result.return_period_impacts[i].damage_ratio, Rat(1, 1))
           /\ RatLe(Rat(0, 1), result.eai_ratio)
           /\ RatLe(result.eai_ratio, Rat(1, 1))


(***************************************************************************)
(* Hazard curves: ClimadaAPIClient.get_flood_hazard_malaysia, the return   *)
(* levels of ISIMIPDataProcessor, calculate_isimip_flood_risk and          *)
(* ClimadaFloodAnalyzer.compare_scenarios.  The intensities of this        *)
(* section are integers in units of 10^-7 m: a depth in thousandths of a   *)
(* metre times a location factor and a scenario factor in hundredths.      *)
(* A frame is observed through the rows of one location: the rows of the   *)
(* other locations come from the same loop body with noise of their own.   *)
(* The coordinate columns are constants of the location and are left out.  *)
(***************************************************************************)
MaxPeriods == 2

\* The floor max(0.1, .) of an intensity: 0.1 m.
IntensityFloor == 1000000

\* The locations of get_flood_hazard_malaysia, in the order of its list.
ClimadaLocations ==
    << "Malaysia (Country)", "Selangor", "Johor", "Kelantan", "Terengganu",
       "Pahang", "Perak", "Penang", "Sabah", "Sarawak" >>

LocationType(location) == IF location = "Malaysia (Country)" THEN "country" ELSE "state"

\* The multiplier of the location (the if / elif chain of the loop body), in
\* hundredths.
LocationFactor(location) ==
    CASE LocationType(location) = "country" -> 85
      [] location = "Kelantan"   -> 135
      [] location = "Terengganu" -> 130
      [] location = "Pahang"     -> 125
      [] location = "Johor"      -> 115
      [] location = "Selangor"   -> 110
      [] location = "Perak"      -> 105
      [] OTHER                   -> 100

\* scenario_factor of get_flood_hazard_malaysia, .get(scenario, 1.0), in
\* hundredths.
ScenarioFactor(scenario) ==
    CASE scenario = "historical" -> 100
      [] scenario = "rcp26"      -> 110
      [] scenario = "rcp45"      -> 125
      [] scenario = "rcp60"      -> 135
      [] scenario = "rcp85"      -> 150
      [] OTHER                   -> 100

\* np.log10(rp) * 0.5 in thousandths of a metre, rounded, for the return
\* periods the model uses.
BaseIntensity(rp) ==
    CASE rp = 5   -> 349
      [] rp = 10  -> 500
      [] rp = 25  -> 699
      [] rp = 50  -> 849
      [] rp = 100 -> 1000
      [] rp = 250 -> 1199

\* Draws of np.random.normal(0, 0.2), in thousandths of a metre: three
\* standard deviations below the mean and one above it.
Noises == {-600, 200}

\* One row of get_flood_hazard_malaysia: the body of its inner loop, with the
\* draw of the noise as `noise`.
FloodHazardRow(location, rp, scenario, noise) ==
    LET base_intensity == BaseIntensity(rp)
        intensity == (base_intensity + noise) * LocationFactor(location) * ScenarioFactor(scenario)
    IN [location |-> location, location_type |-> LocationType(location),
        return_period |-> rp,
        flood_intensity_m |-> Max(IntensityFloor, intensity),
        annual_probability |-> Rat(1, rp),
        scenario |-> scenario, data_source |-> "CLIMADA-simulated"]

\* ClimadaAPIClient.get_flood_hazard_malaysia, the rows of `location` in the
\* returned frame: one row per entry of return_periods, in the order given;
\* noise[i] is the draw of the i-th row.
GetFloodHazardMalaysia(scenario, return_periods, noise, location) ==
    IF location \in Range(ClimadaLocations)
    THEN [i \in 1..Len(return_periods) |-> FloodHazardRow(location, return_periods[i], scenario, noise[i])]
    ELSE << >>

\* ClimadaFloodAnalyzer.compare_scenarios: one call of the client per
\* scenario, each with a draw of its own (noise[k] for the k-th scenario),
\* then the change relative to the historical row, in percent.
CompareScenarioNames == << "historical", "rcp26", "rcp45", "rcp60", "rcp85" >>

CompareScenarios(location, return_period, noise) ==
    LET LocData(k) == GetFloodHazardMalaysia(CompareScenarioNames[k], <<return_period>>, <<noise[k]>>, location)
        Entry(k) == [scenario |-> CompareScenarioNames[k], location |-> location,
                     return_period |-> return_period,
                     flood_intensity_m |-> LocData(k)[1].flood_intensity_m,
                     annual_probability |-> LocData(k)[1].annual_probability]
        results == IF LocData(1) = << >> THEN << >> ELSE [k \in 1..Len(CompareScenarioNames) |-> Entry(k)]
        historical_intensity == results[1].flood_intensity_m
        Change(r) == RatMul(RatNorm(r.flood_intensity_m - historical_intensity, historical_intensity), Rat(100, 1))
    IN [k \in 1..Len(results) |->
           [scenario |-> results[k].scenario, location |-> results[k].location,
            return_period |-> results[k].return_period,
            flood_intensity_m |-> results[k].flood_intensity_m,
            annual_probability |-> results[k].annual_probability,
            intensity_change_pct |-> Change(results[k])]]

\* The return periods the model hands to the builders.
PeriodChoices == {5, 10, 100}

\* A fitted GEV distribution is represented by its quantile function at the
\* non-exceedance probabilities 1 - 1/rp: stats.genextreme.ppf is
\* non-decreasing in the probability.  Rainfall levels are millimetres;
\* discharge levels are held as 1000 * log10 of the level in m3/s, the only
\* form in which calculate_isimip_flood_risk uses them.
IsimipPeriods == << 10, 25, 50, 100, 250 >>

PeriodRank(rp) == Cardinality({q \in (PeriodChoices \cup Range(IsimipPeriods)) : q < rp})

RainfallFits == { [rp \in (PeriodChoices \cup Range(IsimipPeriods)) |-> base + step * PeriodRank(rp)] : base \in {5, 120}, step \in {0, 40} }

DischargeFits == { [rp \in (PeriodChoices \cup Range(IsimipPeriods)) |-> base + step * PeriodRank(rp)] : base \in {0, 2000}, step \in {0, 200} }

\* ISIMIPDataProcessor.calculate_return_levels: one row per entry of
\* return_periods, in the order given.  The level and its interval are in
\* tenths of the unit of the fit.
CalculateReturnLevels(gev_params, return_periods) ==
    [i \in 1..Len(return_periods) |->
        LET rp == return_periods[i]
            return_level == gev_params[rp]
        IN [return_period |-> rp, return_level |-> return_level * 10,
            annual_probability |-> Rat(1, rp),
            ci_lower |-> return_level * 8,
            ci_upper |-> return_level * 12]]

\* ISIMIPDataProcessor.calculate_flood_probabilities, from the two fits that
\* the generated data yield: the return levels at its own list of periods.
CalculateFloodProbabilities(rainfall_gev, discharge_gev) ==
    [rainfall |-> CalculateReturnLevels(rainfall_gev, IsimipPeriods),
     discharge |-> CalculateReturnLevels(discharge_gev, IsimipPeriods),
     return_periods |-> IsimipPeriods]

\* scenario_factor of calculate_isimip_flood_risk, in hundredths.
IsimipScenarioFactor(scenario) ==
    CASE scenario = "historical" -> 100
      [] scenario = "rcp26"      -> 110
      [] scenario = "rcp45"      -> 125
      [] scenario = "rcp60"      -> 135
      [] scenario = "rcp85"      -> 150
      [] OTHER                   -> 100

\* calculate_isimip_flood_risk: one row per rainfall return level; the
\* intensity is floored at 0.1 m before the scenario factor is applied.
\* A tenth of a millimetre of rainfall is 10^-5 m of depth (level / 100); a
\* tenth of a thousandth of log10 discharge is 2 * 10^-8 m (log10 / 5).
CalculateIsimipFloodRisk(location, scenario, rainfall_gev, discharge_gev) ==
    LET prob_analysis == CalculateFloodProbabilities(rainfall_gev, discharge_gev)
        rainfall_rl == prob_analysis.rainfall
        discharge_rl == prob_analysis.discharge
        Row(i) ==
            LET rp == rainfall_rl[i].return_period
                SameRp(r) == r.return_period = rp
                discharge_row == SelectSeq(discharge_rl, SameRp)[1]
                rainfall_component == rainfall_rl[i].return_level * 1000
                discharge_component == discharge_row.return_level * 2
                flood_intensity == Max(IntensityFloor \div 100, rainfall_component + discharge_component)
            IN [location |-> location, return_period |-> rp,
                flood_intensity_m |-> flood_intensity * IsimipScenarioFactor(scenario),
                annual_probability |-> rainfall_rl[i].annual_probability,
                rainfall_return_level_mm |-> rainfall_rl[i].return_level,
                scenario |-> scenario, data_source |-> "ISIMIP historical analysis"]
    IN [i \in 1..Len(rainfall_rl) |-> Row(i)]

\* isimip_probability.get_automatic_return_periods
GetAutomaticReturnPeriods(location) ==
    IF location \in {"Kelantan", "Terengganu", "Pahang"}
    THEN << 5, 10, 25, 50, 100 >>
    ELSE << 10, 25, 50, 100, 250 >>

(***************************************************************************)
(* SpecHazard: the hazard-curve builders called on a default analyzer.     *)
(* They leave the analyzer as it is.                                       *)
(***************************************************************************)
\* A country-level location, a high-risk state and a name the client does
\* not know.
HazardLocations == {"Malaysia (Country)", "Kelantan", "Kuala Lumpur"}

HazardScenarios == {"historical", "rcp85"}

PeriodLists == UNION {[1..n -> PeriodChoices] : n \in 0..MaxPeriods}

InitHazard ==
    /\ calc = "ClimadaFloodAnalyzer"
    /\ constructed = TRUE
    /\ data_files = {}
    /\ damage_functions = <<>>
    /\ reference_data = [use_isimip |-> TRUE, isimip_importable |-> TRUE, hazard_data |-> <<>>]
    /\ call = NoCall
    /\ result = NoResult

GetFloodHazardMalaysiaCall ==
    /\ calc = "ClimadaFloodAnalyzer"
    /\ \E scenario \in HazardScenarios, return_periods \in PeriodLists, location \in HazardLocations :
         \E noise \in [1..Len(return_periods) -> Noises] :
            /\ call' = [op |-> "get_flood_hazard_malaysia", scenario |-> scenario,
                        return_periods |-> return_periods, location |-> location]
            /\ result' = [raised |-> "none",
                          rows |-> GetFloodHazardMalaysia(scenario, return_periods, noise, location)]
    /\ UNCHANGED <<calc, constructed, data_files, damage_functions, reference_data>>

CalculateReturnLevelsCall ==
    /\ calc = "ClimadaFloodAnalyzer"
    /\ \E gev_params \in RainfallFits, return_periods \in PeriodLists :
            /\ call' = [op |-> "calculate_return_levels", return_periods |-> return_periods]
            /\ result' = [raised |-> "none", rows |-> CalculateReturnLevels(gev_params, return_periods)]
    /\ UNCHANGED <<calc, constructed, data_files, damage_functions, reference_data>>

CalculateIsimipFloodRiskCall ==
    /\ calc = "ClimadaFloodAnalyzer"
    /\ \E location \in HazardLocations, scenario \in HazardScenarios :
         \E rainfall_gev \in RainfallFits, discharge_gev \in DischargeFits :
            /\ call' = [op |-> "calculate_isimip_flood_risk", scenario |-> scenario, location |-> location]
            /\ result' = [raised |-> "none",
                          rows |-> CalculateIsimipFloodRisk(location, scenario, rainfall_gev, discharge_gev)]
    /\ UNCHANGED <<calc, constructed, data_files, damage_functions, reference_data>>

CompareScenariosCall ==
    /\ calc = "ClimadaFloodAnalyzer"
    /\ \E location \in HazardLocations, return_period \in PeriodChoices :
         \E noise \in [1..Len(CompareScenarioNames) -> Noises] :
            /\ call' = [op |-> "compare_scenarios", location |-> location,
                        return_period |-> return_period]
            /\ result' = [raised |-> "none", rows |-> CompareScenarios(location, return_period, noise)]
    /\ UNCHANGED <<calc, constructed, data_files, damage_functions, reference_data>>

NextHazard ==
    \/ GetFloodHazardMalaysiaCall
    \/ CalculateReturnLevelsCall
    \/ CalculateIsimipFloodRiskCall
    \/ CompareScenariosCall

SpecHazard == InitHazard /\ [][NextHazard]_vars

\* The rows of a table are in ascending order of return period, each carries
\* the annual probability 1 / return_period, and the probability falls
\* strictly from row to row.
ProbabilityIsInverse(rows) ==
    \A i \in 1..Len(rows) : RatEq(rows[i].annual_probability, Rat(1, rows[i].return_period))

AscendingCurve(rows) ==
    /\ ProbabilityIsInverse(rows)
    /\ \A i \in 1..(Len(rows) - 1) :
          /\ rows[i].return_period <= rows[i + 1].return_period
          /\ ~RatLe(rows[i].annual_probability, rows[i + 1].annual_probability)

\* C12: every return-level table and hazard curve (calculate_return_levels,
\* get_flood_hazard_malaysia, calculate_isimip_flood_risk), whatever the
\* order of the return periods handed in, has its rows of one location in
\* ascending order of return period, with annual_probability equal to
\* 1 / return_period and strictly decreasing from row to row.
C12_CurveAscending ==
    (call.op \in {"calculate_return_levels", "get_flood_hazard_malaysia", "calculate_isimip_flood_risk"})
        => AscendingCurve(result.rows)

\* C13: on the simulated path the intensity built for scenario rcp85 is
\* exactly 1.5 times the intensity built for scenario historical, for the
\* same location and return period.
C13_Rcp85ScalesHistorical ==
    (call.op = "compare_scenarios")
        => \A h \in Range(result.rows), f \in Range(result.rows) :
              (h.scenario = "historical" /\ f.scenario = "rcp85")
                  => 2 * f.flood_intensity_m = 3 * h.flood_intensity_m

(***************************************************************************)
(* SpecLoad: ClimadaFloodAnalyzer.load_flood_hazard on an analyzer built   *)
(* with or without ISIMIP, in an environment where isimip_probability can  *)
(* or cannot be imported.  hazard_data holds the rows of the location of   *)
(* the call.                                                               *)
(***************************************************************************)
InitLoad ==
    /\ calc = "ClimadaFloodAnalyzer"
    /\ constructed = TRUE
    /\ data_files = {}
    /\ damage_functions = <<>>
    /\ \E use_isimip \in BOOLEAN, isimip_importable \in BOOLEAN :
          reference_data = [use_isimip |-> use_isimip, isimip_importable |-> isimip_importable,
                            hazard_data |-> <<>>]
    /\ call = NoCall
    /\ result = NoResult

\* The fallback list of load_flood_hazard.
ClimadaDefaultPeriods == << 10, 25, 50, 100, 250 >>

\* The client branch of load_flood_hazard: every frame the client can return.
LoadFromClimada(ref, scenario, return_periods, location) ==
    LET periods == IF IsNone(return_periods) THEN ClimadaDefaultPeriods ELSE return_periods[1]
    IN { [ref EXCEPT !.hazard_data = <<GetFloodHazardMalaysia(scenario, periods, noise, location)>>] :
            noise \in [1..Len(periods) -> Noises] }

\* ClimadaFloodAnalyzer.load_flood_hazard: the analyzers it can leave behind.
\* return_periods is None (<< >>) or a list (<< list >>).  The automatic return periods of the
\* ISIMIP branch are computed and printed only; the curve comes from
\* calculate_isimip_flood_risk(location, scenario, years=50).
LoadFloodHazardOutcomes(ref, scenario, return_periods, location) ==
    IF ref.use_isimip /\ IsNone(return_periods)
    THEN IF ref.isimip_importable
         THEN LET auto_return_periods == GetAutomaticReturnPeriods(location)
              IN { [ref EXCEPT !.hazard_data = <<CalculateIsimipFloodRisk(location, scenario, rainfall_gev, discharge_gev)>>] :
                      rainfall_gev \in RainfallFits, discharge_gev \in DischargeFits }
         ELSE LoadFromClimada([ref EXCEPT !.use_isimip = FALSE], scenario, return_periods, location)
    ELSE LoadFromClimada(ref, scenario, return_periods, location)

LoadFloodHazardCurveCall ==
    /\ calc = "ClimadaFloodAnalyzer"
    /\ \E scenario \in HazardScenarios, return_periods \in ({<< >>} \cup {<<l>> : l \in PeriodLists}), location \in HazardLocations :
         \E ref \in LoadFloodHazardOutcomes(reference_data, scenario, return_periods, location) :
            /\ reference_data' = ref
            /\ call' = [op |-> "load_flood_hazard", scenario |-> scenario,
                        return_periods |-> return_periods, location |-> location]
            /\ result' = [raised |-> "none", rows |-> ref.hazard_data[1]]
    /\ UNCHANGED <<calc, constructed, data_files, damage_functions>>

GetAutomaticReturnPeriodsCall ==
    /\ calc = "ClimadaFloodAnalyzer"
    /\ \E location \in HazardLocations \cup {"Terengganu", "Pahang", "Selangor"} :
            /\ call' = [op |-> "get_automatic_return_periods", location |-> location]
            /\ result' = [raised |-> "none", periods |-> GetAutomaticReturnPeriods(location)]
    /\ UNCHANGED <<calc, constructed, data_files, damage_functions, reference_data>>

NextLoad == LoadFloodHazardCurveCall \/ GetAutomaticReturnPeriodsCall

SpecLoad == InitLoad /\ [][NextLoad]_vars

\* The return periods of a curve, row by row.
PeriodsOf(rows) == [i \in 1..Len(rows) |-> rows[i].return_period]

\* C14: load_flood_hazard called without return periods yields, for a
\* location the hazard source knows, a curve with exactly the return periods
\* of the location's risk tier: 5, 10, 25, 50, 100 for Kelantan, Terengganu
\* and Pahang, and 10, 25, 50, 100, 250 for every other location.
C14_AutomaticPeriodsUsed ==
    (call.op = "load_flood_hazard" /\ IsNone(call.return_periods)
         /\ call.location \in Range(ClimadaLocations))
        => PeriodsOf(reference_data.hazard_data[1]) =
              (IF call.location \in {"Kelantan", "Terengganu", "Pahang"}
               THEN << 5, 10, 25, 50, 100 >>
               ELSE << 10, 25, 50, 100, 250 >>)

(***************************************************************************)
(* ClimateEventAnalyzer (src/climate_probability.py).  Probabilities are   *)
(* fixed-point numbers in ten-thousandths, rounded after every operation   *)
(* as the floats of the program are; counts, years and rainfall (mm) are   *)
(* integers.  A frame is its set of columns and its rows; a row carries    *)
(* the year and the month of its date.  None is << >>, a frame f is <<f>>. *)
(***************************************************************************)
One == 10000

\* float64 infinity, as 0.0 ** -1 yields it.
Infinity == 1000000000

MaxWet == 3

\* ClimateEventAnalyzer.THRESHOLDS
Thresholds == [heavy_rainfall |-> 100, extreme_rainfall |-> 200, flood_rainfall |-> 150]

\* str.lower() on the labels the model uses.
Lower(s) ==
    CASE s = "Flood" -> "flood"
      [] s = "Flash Flood" -> "flash flood"
      [] OTHER -> s

\* 'flood' in s or 'rainfall' in s or 'rain' in s, on lowered labels.
RainRelated(s) == s \in {"flood", "flash flood", "heavy_rainfall", "extreme_rainfall"}

FxRound(n, d) == IF n >= 0 THEN (2 * n + d) \div (2 * d) ELSE -((2 * (-n) + d) \div (2 * d))
FxMul(a, b) == FxRound(a * b, One)

RECURSIVE FxPowNat(_, _)
FxPowNat(b, w) ==
    IF w = 0 THEN One
    ELSE IF w % 2 = 0 THEN LET h == FxPowNat(b, w \div 2) IN FxMul(h, h)
    ELSE FxMul(b, FxPowNat(b, w - 1))

\* b ** w on floats; a zero base with a negative exponent yields inf.
FxPow(b, w) ==
    IF w >= 0 THEN FxPowNat(b, w)
    ELSE LET x == FxPowNat(b, -w)
         IN IF x = 0 THEN Infinity ELSE IF x > 0 THEN FxRound(One * One, x) ELSE -FxRound(One * One, -x)

\* 1 - x on floats.
FxComplement(x) == IF x = Infinity THEN -Infinity ELSE One - x

EventCountOf(event_counts, key) == IF key \in DOMAIN event_counts THEN event_counts[key] ELSE 0

\* ClimateEventAnalyzer._process_historical_data: the day count and the event
\* counts.  The rainfall counts are set first; every label of the event_type
\* column that names a flood or rainfall event is then added to the count of
\* its lowered name (None labels are not counted by value_counts).
ProcessHistoricalData(historical_data) ==
    IF IsNone(historical_data) \/ Len(historical_data[1].rows) = 0
    THEN [total_days |-> 0, event_counts |-> << >>]
    ELSE LET columns == historical_data[1].columns
             rows == historical_data[1].rows
             AtLeast(t) == Cardinality({i \in 1..Len(rows) : rows[i].rainfall >= t})
             rainfall_counts == [heavy_rainfall |-> AtLeast(Thresholds.heavy_rainfall), extreme_rainfall |-> AtLeast(Thresholds.extreme_rainfall), flood |-> AtLeast(Thresholds.flood_rainfall)]
             rainfall_keys == IF "rainfall" \in columns THEN DOMAIN rainfall_counts ELSE {}
             labels == IF "event_type" \in columns THEN {rows[i].event_type : i \in 1..Len(rows)} \ {"None"} ELSE {}
             counted == {e \in labels : e # "" /\ Lower(e) # "none" /\ RainRelated(Lower(e))}
             LabelCount(key) == Cardinality({i \in 1..Len(rows) : rows[i].event_type \in counted /\ Lower(rows[i].event_type) = key})
         IN [total_days |-> Len(rows),
             event_counts |-> [key \in rainfall_keys \cup {Lower(e) : e \in counted} |->
                                  (IF key \in rainfall_keys THEN rainfall_counts[key] ELSE 0) + LabelCount(key)]]

\* ClimateEventAnalyzer.__init__
ConstructAnalyzer(historical_data) ==
    LET processed == ProcessHistoricalData(historical_data)
    IN [historical_data |-> historical_data,
        event_counts |-> processed.event_counts,
        total_days |-> processed.total_days]

\* ClimateEventAnalyzer.calculate_event_probability
CalculateEventProbability(analyzer, event_type, time_window) ==
    IF analyzer.total_days = 0 THEN 0
    ELSE LET event_count == EventCountOf(analyzer.event_counts, Lower(event_type))
             daily_probability == FxRound(event_count * One, analyzer.total_days)
             probability_no_events == FxPow(One - daily_probability, time_window)
             probability_at_least_one == FxComplement(probability_no_events)
         IN Min(probability_at_least_one, One)

(***************************************************************************)
(* SpecClimate: an analyzer built over one of the data sets, then calls of *)
(* its three estimators.                                                   *)
(***************************************************************************)
YearsOfData == << 2020, 2021, 2022 >>

\* The rows of a year fall into one month: January (north-east monsoon) for
\* the first year, June (south-west monsoon) for the others.
YearMonth(year) == IF year = YearsOfData[1] THEN 1 ELSE 6

\* A day without an event and a day of 160 mm of rain, labelled `label`.
DryDay(year) == [year |-> year, month |-> YearMonth(year), rainfall |-> 10, event_type |-> "None"]
WetDay(year, label) == [year |-> year, month |-> YearMonth(year), rainfall |-> 160, event_type |-> label]

YearRows(year, dry, wet, label) == [i \in 1..(dry + wet) |-> IF i <= dry THEN DryDay(year) ELSE WetDay(year, label)]

\* Per year, the number of dry days (0 or 1) and of wet days (0..MaxWet).
YearProfiles == [1..Len(YearsOfData) -> ((0..1) \X (0..MaxWet))]

\* The columns of a frame and the label its wet days carry (the fields of a
\* row whose column is absent are never read).
FrameVariants ==
    { [columns |-> {"date", "rainfall", "event_type"}, label |-> "flood"],
      [columns |-> {"date", "rainfall", "event_type"}, label |-> "Flash Flood"],
      [columns |-> {"date", "rainfall"}, label |-> "None"],
      [columns |-> {"rainfall", "event_type"}, label |-> "flood"] }

FrameOf(profile, variant) ==
    [columns |-> variant.columns,
     rows |-> YearRows(YearsOfData[1], profile[1][1], profile[1][2], variant.label)
              \o YearRows(YearsOfData[2], profile[2][1], profile[2][2], variant.label)
              \o YearRows(YearsOfData[3], profile[3][1], profile[3][2], variant.label)]

\* None, the empty frame pd.DataFrame(), and the frames above.
HistoricalDataSets ==
    {<< >>, << [columns |-> {}, rows |-> << >>] >>}
        \cup {<< FrameOf(profile, variant) >> : profile \in YearProfiles, variant \in FrameVariants}

InitClimate ==
    /\ calc = "ClimateEventAnalyzer"
    /\ constructed = TRUE
    /\ data_files = {}
    /\ damage_functions = <<>>
    /\ \E historical_data \in HistoricalDataSets : reference_data = ConstructAnalyzer(historical_data)
    /\ call = NoCall
    /\ result = NoResult

\* An event type counted from rainfall and one the analyzer does not know.
EventTypes == {"flood", "drought"}

TimeWindows == {-1, 0, 1, 2, 365}

CalculateEventProbabilityCall ==
    /\ calc = "ClimateEventAnalyzer"
    /\ \E event_type \in EventTypes, time_window \in TimeWindows :
            /\ call' = [op |-> "calculate_event_probability", event_type |-> event_type,
                        time_window |-> time_window]
            /\ result' = [raised |-> "none",
                          probability |-> CalculateEventProbability(reference_data, event_type, time_window)]
    /\ UNCHANGED <<calc, constructed, data_files, damage_functions, reference_data>>

\* season_months of get_seasonal_probability
SeasonMonths ==
    [northeast_monsoon |-> {11, 12, 1, 2, 3},
     southwest_monsoon |-> {5, 6, 7, 8, 9},
     inter_monsoon |-> {4, 10}]

\* The event count of the seasonal and yearly estimators: rainfall against
\* the threshold of the event type, nothing for any other event type or
\* without a rainfall column.
RainfallEvents(columns, rows, event_type) ==
    LET AtLeast(t) == Cardinality({i \in 1..Len(rows) : rows[i].rainfall >= t})
    IN IF "rainfall" \notin columns THEN 0
       ELSE CASE event_type = "heavy_rainfall"   -> AtLeast(Thresholds.heavy_rainfall)
              [] event_type = "extreme_rainfall" -> AtLeast(Thresholds.extreme_rainfall)
              [] event_type = "flood"            -> AtLeast(Thresholds.flood_rainfall)
              [] OTHER                           -> 0

\* ClimateEventAnalyzer.get_seasonal_probability
GetSeasonalProbability(analyzer, event_type, season) ==
    IF IsNone(analyzer.historical_data) \/ "date" \notin analyzer.historical_data[1].columns
    THEN [raised |-> "none", probability |-> 0]
    ELSE IF season \notin DOMAIN SeasonMonths
    THEN [raised |-> "ValueError", probability |-> 0]
    ELSE LET columns == analyzer.historical_data[1].columns
             InSeason(r) == r.month \in SeasonMonths[season]
             season_data == SelectSeq(analyzer.historical_data[1].rows, InSeason)
             event_count == RainfallEvents(columns, season_data, event_type)
         IN IF Len(season_data) = 0
            THEN [raised |-> "none", probability |-> 0]
            ELSE [raised |-> "none", probability |-> FxRound(event_count * One, Len(season_data))]

\* sorted(df['year'].unique())
RECURSIVE SortedSeq(_)
SortedSeq(S) == IF S = {} THEN << >> ELSE LET m == CHOOSE x \in S : \A y \in S : x <= y IN <<m>> \o SortedSeq(S \ {m})

RECURSIVE SumSeq(_)
SumSeq(s) == IF Len(s) = 0 THEN 0 ELSE s[1] + SumSeq(Tail(s))

RatSub(a, b) == RatAdd(a, Rat(-b.n, b.d))
RatMin(a, b) == IF RatLe(a, b) THEN a ELSE b
RatMax(a, b) == IF RatLe(a, b) THEN b ELSE a

\* scipy.stats.linregress(x, y) for at least two distinct x: the slope, the
\* intercept and the square of r; r is 0.0 when y is constant.
LinRegress(x, y) ==
    LET n == Len(x)
        sx == SumSeq(x)
        sy == SumSeq(y)
        ssxm == n * SumSeq([i \in 1..n |-> x[i] * x[i]]) - sx * sx
        ssxym == n * SumSeq([i \in 1..n |-> x[i] * y[i]]) - sx * sy
        ssym == n * SumSeq([i \in 1..n |-> y[i] * y[i]]) - sy * sy
        slope == RatNorm(ssxym, ssxm)
    IN [slope |-> slope,
        intercept |-> RatSub(RatNorm(sy, n), RatMul(slope, RatNorm(sx, n))),
        r_squared |-> IF ssym = 0 THEN Rat(0, 1) ELSE RatNorm(ssxym * ssxym, ssxm * ssym)]

TrendOf_AlwaysStable(slope) == "stable"

\* The trend of a slope (events per year).
TrendOf(slope) ==
    IF ~RatLe(slope, Rat(1, 2)) THEN "increasing"
    ELSE IF ~RatLe(Rat(-1, 2), slope) THEN "decreasing"
    ELSE "stable"

\* The confidence of a fit.
ConfidenceOf(r_squared) ==
    IF ~RatLe(r_squared, Rat(7, 10)) THEN "high"
    ELSE IF ~RatLe(r_squared, Rat(4, 10)) THEN "medium"
    ELSE "low"

\* ClimateEventAnalyzer.predict_trend
PredictTrend(analyzer, event_type, years_ahead) ==
    IF IsNone(analyzer.historical_data) \/ Len(analyzer.historical_data[1].rows) = 0
    THEN [raised |-> "none", trend |-> "insufficient_data", current_probability |-> Rat(0, 1),
          predicted_probability |-> Rat(0, 1), confidence |-> "low"]
    ELSE IF "date" \notin analyzer.historical_data[1].columns
    THEN [raised |-> "KeyError", trend |-> "none"]
    ELSE LET columns == analyzer.historical_data[1].columns
             rows == analyzer.historical_data[1].rows
             years == SortedSeq({rows[i].year : i \in 1..Len(rows)})
             YearData(year) == LET OfYear(r) == r.year = year IN SelectSeq(rows, OfYear)
             events == [k \in 1..Len(years) |-> RainfallEvents(columns, YearData(years[k]), event_type)]
             current_prob == RatNorm(CalculateEventProbability(analyzer, event_type, 365), One)
         IN IF Len(years) < 2
            THEN [raised |-> "none", trend |-> "insufficient_data", current_probability |-> current_prob,
                  predicted_probability |-> current_prob, confidence |-> "low"]
            ELSE LET fit == LinRegress(years, events)
                     future_year == years[Len(years)] + years_ahead
                     predicted_events == RatMax(Rat(0, 1), RatAdd(RatMul(fit.slope, Rat(future_year, 1)), fit.intercept))
                     avg_events_per_year == RatNorm(SumSeq(events), Len(events))
                     multiplier == IF avg_events_per_year.n > 0 THEN RatDiv(predicted_events, avg_events_per_year) ELSE Rat(1, 1)
                     predicted_prob == IF fit.slope.n # 0 THEN RatMin(RatMul(current_prob, multiplier), Rat(1, 1)) ELSE current_prob
                 IN [raised |-> "none", trend |-> TrendOf(fit.slope), slope |-> fit.slope,
                     current_probability |-> current_prob, predicted_probability |-> predicted_prob,
                     confidence |-> ConfidenceOf(fit.r_squared), r_squared |-> fit.r_squared]

Seasons == {"northeast_monsoon", "southwest_monsoon", "inter_monsoon", "winter"}

YearsAhead == {1, 5}

GetSeasonalProbabilityCall ==
    /\ calc = "ClimateEventAnalyzer"
    /\ \E event_type \in EventTypes, season \in Seasons :
            /\ call' = [op |-> "get_seasonal_probability", event_type |-> event_type, season |-> season]
            /\ result' = GetSeasonalProbability(reference_data, event_type, season)
    /\ UNCHANGED <<calc, constructed, data_files, damage_functions, reference_data>>

PredictTrendCall ==
    /\ calc = "ClimateEventAnalyzer"
    /\ \E event_type \in EventTypes, years_ahead \in YearsAhead :
            /\ call' = [op |-> "predict_trend", event_type |-> event_type, years_ahead |-> years_ahead]
            /\ result' = PredictTrend(reference_data, event_type, years_ahead)
    /\ UNCHANGED <<calc, constructed, data_files, damage_functions, reference_data>>

NextClimate == CalculateEventProbabilityCall \/ GetSeasonalProbabilityCall \/ PredictTrendCall

SpecClimate == InitClimate /\ [][NextClimate]_vars

\* C15: calculate_event_probability returns 0 when the analyzer holds no
\* days, and its result lies within [0, 1] for every event type and every
\* time window.
C15_ProbabilityWithinUnit ==
    (call.op = "calculate_event_probability")
        => /\ (reference_data.total_days = 0 => result.probability = 0)
           /\ 0 <= result.probability
           /\ result.probability <= One

\* C16: on one analyzer, for one event type and two time windows w1 < w2 of
\* zero days and more, the probability for w1 is at most the probability for
\* w2, and both lie within [0, 1].  (Two calls in a row on the same analyzer:
\* no call changes the analyzer.)
C16_MonotoneInWindow ==
    [][(/\ call.op = "calculate_event_probability"
        /\ call'.op = "calculate_event_probability"
        /\ call'.event_type = call.event_type
        /\ 0 <= call.time_window
        /\ call.time_window < call'.time_window)
          => /\ result.probability <= result'.probability
             /\ 0 <= result.probability /\ result.probability <= One
             /\ 0 <= result'.probability /\ result'.probability <= One]_vars

\* The rows of the frame of the analyzer that fall into a season.
SeasonRows(analyzer, season) ==
    LET InSeason(r) == r.month \in SeasonMonths[season]
    IN SelectSeq(analyzer.historical_data[1].rows, InSeason)

\* C17: the seasonal probability is what the unrestricted estimator yields
\* on the days of the season alone, 1 - (1 - season_events / season_days) ^
\* window clamped to at most 1 (the window being the estimator's default of
\* 365 days); it lies within [0, 1] and is 0 when the season has no days.
C17_SeasonalAppliesFormula ==
    (/\ call.op = "get_seasonal_probability"
     /\ call.season \in DOMAIN SeasonMonths
     /\ ~IsNone(reference_data.historical_data)
     /\ "date" \in reference_data.historical_data[1].columns)
        => LET season_data == SeasonRows(reference_data, call.season)
               restricted == ConstructAnalyzer(<<[columns |-> reference_data.historical_data[1].columns, rows |-> season_data]>>)
           IN /\ result.raised = "none"
              /\ result.probability = CalculateEventProbability(restricted, call.event_type, 365)
              /\ 0 <= result.probability /\ result.probability <= One
              /\ (Len(season_data) = 0 => result.probability = 0)

\* The distinct years of the frame of the analyzer, ascending, and the events
\* of each of them.
DataYears(analyzer) == SortedSeq({analyzer.historical_data[1].rows[i].year : i \in 1..Len(analyzer.historical_data[1].rows)})

YearlyEvents(analyzer, event_type) ==
    LET years == DataYears(analyzer)
        Events(year) == LET OfYear(r) == r.year = year
                        IN RainfallEvents(analyzer.historical_data[1].columns, SelectSeq(analyzer.historical_data[1].rows, OfYear), event_type)
    IN [k \in 1..Len(years) |-> Events(years[k])]

\* A fit was made: the call returned a trend other than insufficient_data.
Fitted == call.op = "predict_trend" /\ result.raised = "none" /\ result.trend # "insufficient_data"

\* C18: predict_trend reports 'increasing' exactly when the fitted slope
\* exceeds 0.5, 'decreasing' exactly when it is below -0.5 and 'stable'
\* otherwise; confidence 'high' exactly when R-squared exceeds 0.7, 'medium'
\* when it exceeds 0.4 but not 0.7, 'low' otherwise; and the predicted
\* probability is min(1, current_probability * max(0, predicted_events) /
\* mean_historical_events), within [0, 1].  predicted_events is the value of
\* the fitted line (through the point of means, with the fitted slope) at
\* the last year plus years_ahead.
C18_TrendClassification ==
    Fitted =>
        LET years == DataYears(reference_data)
            events == YearlyEvents(reference_data, call.event_type)
            mean_year == RatNorm(SumSeq(years), Len(years))
            mean_events == RatNorm(SumSeq(events), Len(events))
            future_year == Rat(years[Len(years)] + call.years_ahead, 1)
            predicted_events == RatAdd(mean_events, RatMul(result.slope, RatSub(future_year, mean_year)))
            scaled == RatMul(result.current_probability, RatDiv(RatMax(Rat(0, 1), predicted_events), mean_events))
        IN /\ (result.trend = "increasing") <=> ~RatLe(result.slope, Rat(1, 2))
           /\ (result.trend = "decreasing") <=> ~RatLe(Rat(-1, 2), result.slope)
           /\ (result.trend = "stable") <=> (RatLe(Rat(-1, 2), result.slope) /\ RatLe(result.slope, Rat(1, 2)))
           /\ (result.confidence = "high") <=> ~RatLe(result.r_squared, Rat(7, 10))
           /\ (result.confidence = "medium") <=> (~RatLe(result.r_squared, Rat(4, 10)) /\ RatLe(result.r_squared, Rat(7, 10)))
           /\ (result.confidence = "low") <=> RatLe(result.r_squared, Rat(4, 10))
           /\ mean_events.n > 0 => RatEq(result.predicted_probability, RatMin(Rat(1, 1), scaled))
           /\ RatLe(Rat(0, 1), result.predicted_probability)
           /\ RatLe(result.predicted_probability, Rat(1, 1))

\* A fit with a rising trend, a medium confidence and a positive predicted
\* probability.
C18_Witness ==
    /\ Fitted
    /\ result.trend = "increasing"
    /\ result.confidence = "medium"
    /\ result.predicted_probability.n > 0

\* The frame of the analyzer shows fewer than two distinct years: there is
\* no frame, no row, no date column, or all rows fall into one year.
FewerThanTwoYears(analyzer) ==
    \/ IsNone(analyzer.historical_data)
    \/ Len(analyzer.historical_data[1].rows) = 0
    \/ "date" \notin analyzer.historical_data[1].columns
    \/ Len(DataYears(analyzer)) < 2

\* C19: on data that show fewer than two distinct years (none, empty, or
\* rows of fewer than two years) predict_trend returns a result whose trend
\* is 'insufficient_data' and raises nothing.
C19_InsufficientDataMarker ==
    (call.op = "predict_trend" /\ FewerThanTwoYears(reference_data))
        => (result.raised = "none" /\ result.trend = "insufficient_data")

(***************************************************************************)
(* Uncertainty analysis of the Enhanced and JRC calculators.  A standard   *)
(* deviation is a ratio in thousandths held as an exact rational; an       *)
(* economic damage is an exact rational amount of money.  An uncertainty   *)
(* row of the Enhanced calculator is [building_type, standard_deviation];  *)
(* an uncertainty row of the JRC table is [damage_class, region,           *)
(* standard_deviation], whose standard deviation is << >> when the cell    *)
(* is NaN and <<v>> otherwise.                                             *)
(***************************************************************************)
MaxStdRows == 2

UncertaintyFile == "standard_deviation_data_cleaned.parquet"

UncertaintyFactor == Rat(2, 10)

Z95 == Rat(196, 100)

\* max(0, x) of Python: x when x > 0, otherwise the integer 0
Max0(x) == IF RatLe(x, Rat(0, 1)) THEN Rat(0, 1) ELSE x

CreateDefaultUncertaintyData ==
    << [building_type |-> "residential", standard_deviation |-> Rat(150, 1000)],
       [building_type |-> "commercial", standard_deviation |-> Rat(200, 1000)],
       [building_type |-> "industrial", standard_deviation |-> Rat(250, 1000)],
       [building_type |-> "institutional", standard_deviation |-> Rat(180, 1000)] >>

LoadUncertaintyData(files, rows) ==
    IF UncertaintyFile \in files THEN rows ELSE CreateDefaultUncertaintyData

\* The same analysis with the lower bounds left as computed.
CalculateUncertainty_Unclamped(uncertainty_table, economic_damage, building_type) ==
    LET Mask(r) == r.building_type = building_type
        uncertainty_data == SelectSeq(uncertainty_table, Mask)
        std_dev == IF Len(uncertainty_data) = 0 THEN UncertaintyFactor
                   ELSE uncertainty_data[1].standard_deviation
        damage_std == RatMul(economic_damage, std_dev)
    IN [raised |-> "none",
        standard_deviation |-> std_dev,
        damage_standard_deviation |-> damage_std,
        confidence_interval_95 |->
            [lower |-> RatSub(economic_damage, RatMul(Z95, damage_std)),
             upper |-> RatAdd(economic_damage, RatMul(Z95, damage_std))],
        confidence_interval_68 |->
            [lower |-> RatSub(economic_damage, damage_std),
             upper |-> RatAdd(economic_damage, damage_std)]]

\* EnhancedFloodDamageCalculator._calculate_uncertainty
CalculateUncertainty(uncertainty_table, economic_damage, building_type) ==
    LET Mask(r) == r.building_type = building_type
        uncertainty_data == SelectSeq(uncertainty_table, Mask)
        std_dev == IF Len(uncertainty_data) = 0 THEN UncertaintyFactor
                   ELSE uncertainty_data[1].standard_deviation
        damage_std == RatMul(economic_damage, std_dev)
    IN [raised |-> "none",
        standard_deviation |-> std_dev,
        damage_standard_deviation |-> damage_std,
        confidence_interval_95 |->
            [lower |-> Max0(RatSub(economic_damage, RatMul(Z95, damage_std))),
             upper |-> RatAdd(economic_damage, RatMul(Z95, damage_std))],
        confidence_interval_68 |->
            [lower |-> Max0(RatSub(economic_damage, damage_std)),
             upper |-> RatAdd(economic_damage, damage_std)]]

JrcUncertaintyClass(building_type) ==
    CASE building_type = "residential" -> "Residential buildings"
      [] building_type = "commercial" -> "Commercial buildings"
      [] building_type = "industrial" -> "Industrial buildings"
      [] OTHER -> "Residential buildings"

\* Series.mean(): the sum of the values over their number
RECURSIVE SumStd(_)
SumStd(rows) ==
    IF Len(rows) = 0 THEN Rat(0, 1)
    ELSE RatAdd(rows[1].standard_deviation[1], SumStd(Tail(rows)))

\* JRCFloodDamageCalculator._calculate_jrc_uncertainty
CalculateJrcUncertainty(table, economic_damage, building_type, region) ==
    LET damage_class == JrcUncertaintyClass(building_type)
        Mask(r) == /\ r.damage_class = damage_class
                   /\ r.region = region
                   /\ ~IsNone(r.standard_deviation)
        uncertainty_data == SelectSeq(table, Mask)
        std_dev == IF Len(uncertainty_data) = 0 THEN Rat(2, 10)
                   ELSE RatDiv(SumStd(uncertainty_data), Rat(Len(uncertainty_data), 1))
        damage_std == RatMul(economic_damage, std_dev)
    IN [raised |-> "none",
        standard_deviation_ratio |-> std_dev,
        damage_standard_deviation_eur |-> damage_std,
        confidence_interval_95 |->
            [lower_eur |-> Max0(RatSub(economic_damage, RatMul(Z95, damage_std))),
             upper_eur |-> RatAdd(economic_damage, RatMul(Z95, damage_std))],
        confidence_interval_68 |->
            [lower_eur |-> Max0(RatSub(economic_damage, damage_std)),
             upper_eur |-> RatAdd(economic_damage, damage_std)],
        data_source |-> "JRC standard deviations"]

(***************************************************************************)
(* The uncertainty analysis applied to bounded tables and damages.         *)
(***************************************************************************)
\* Standard deviations of a file, in thousandths: none, small, above
\* 1 / 1.96 and above 1.
StdValues == {0, 150, 600, 1200}

UncertaintyTypes == {"residential", "commercial"}

UncertaintyRowChoices ==
    {[building_type |-> b, standard_deviation |-> Rat(v, 1000)] :
        b \in UncertaintyTypes, v \in StdValues}

UncertaintyTables ==
    UNION {[1..n -> UncertaintyRowChoices] : n \in 0..MaxStdRows}

JrcStdCells == {<< >>} \cup {<<Rat(v, 1000)>> : v \in StdValues \ {0}}

JrcUncertaintyRowChoices ==
    {[damage_class |-> c, region |-> "EUROPE", standard_deviation |-> s] :
        c \in {"Residential buildings", "Commercial buildings"}, s \in JrcStdCells}

JrcUncertaintyTables ==
    UNION {[1..n -> JrcUncertaintyRowChoices] : n \in 0..MaxStdRows}

\* Damages the calculators produce: of a negative area, of no damage, of a
\* fraction of a currency unit, and of ordinary buildings.
EconomicDamages == {Rat(-5000, 1), Rat(0, 1), Rat(1, 4), Rat(37500, 1), Rat(100000, 1)}

CallBuildingTypes == {"residential", "commercial", "warehouse"}

InitUncertaintyEnhanced ==
    /\ calc = "EnhancedFloodDamageCalculator"
    /\ damage_functions = << >>
    /\ \/ /\ data_files = {}
          /\ reference_data = [uncertainty_data |-> LoadUncertaintyData({}, << >>)]
       \/ /\ data_files = {UncertaintyFile}
          /\ \E rows \in UncertaintyTables :
                reference_data = [uncertainty_data |-> LoadUncertaintyData({UncertaintyFile}, rows)]

InitUncertaintyJrc ==
    /\ calc = "JRCFloodDamageCalculator"
    /\ data_files = {"damage_functions_jrc.parquet"}
    /\ damage_functions \in JrcUncertaintyTables
    /\ reference_data = [uncertainty_data |-> << >>]

InitUncertainty ==
    /\ InitUncertaintyEnhanced \/ InitUncertaintyJrc
    /\ constructed = TRUE
    /\ call = NoCall
    /\ result = NoResult

CalculateUncertaintyCall ==
    /\ calc = "EnhancedFloodDamageCalculator"
    /\ \E economic_damage \in EconomicDamages, building_type \in CallBuildingTypes :
            /\ call' = [op |-> "_calculate_uncertainty", economic_damage |-> economic_damage,
                        building_type |-> building_type]
            /\ result' = CalculateUncertainty(reference_data.uncertainty_data,
                                              economic_damage, building_type)
    /\ UNCHANGED <<calc, constructed, data_files, damage_functions, reference_data>>

CalculateJrcUncertaintyCall ==
    /\ calc = "JRCFloodDamageCalculator"
    /\ \E economic_damage \in EconomicDamages, building_type \in CallBuildingTypes,
          region \in {"EUROPE", "ASIA"} :
            /\ call' = [op |-> "_calculate_jrc_uncertainty", economic_damage |-> economic_damage,
                        building_type |-> building_type, region |-> region]
            /\ result' = CalculateJrcUncertainty(damage_functions, economic_damage,
                                                 building_type, region)
    /\ UNCHANGED <<calc, constructed, data_files, damage_functions, reference_data>>

NextUncertainty == CalculateUncertaintyCall \/ CalculateJrcUncertaintyCall

SpecUncertainty == InitUncertainty /\ [][NextUncertainty]_vars

\* The standard deviation and the bounds of the analysis just returned,
\* under the names of the calculator that returned it.
StdDevOf(r) ==
    IF call.op = "_calculate_uncertainty" THEN r.standard_deviation
    ELSE r.standard_deviation_ratio

DamageStdOf(r) ==
    IF call.op = "_calculate_uncertainty" THEN r.damage_standard_deviation
    ELSE r.damage_standard_deviation_eur

LowerOf(interval) ==
    IF call.op = "_calculate_uncertainty" THEN interval.lower ELSE interval.lower_eur

UpperOf(interval) ==
    IF call.op = "_calculate_uncertainty" THEN interval.upper ELSE interval.upper_eur

\* C20: for every economic damage and standard-deviation ratio the analysis
\* returns damage_std = economic_damage x std_dev, the 68% interval
\* [max(0, damage - damage_std), damage + damage_std] and the 95% interval
\* [max(0, damage - 1.96 x damage_std), damage + 1.96 x damage_std]; no
\* lower bound is negative.
C20_UncertaintyIntervals ==
    call.op \in {"_calculate_uncertainty", "_calculate_jrc_uncertainty"} =>
        LET damage == call.economic_damage
            damage_std == RatMul(damage, StdDevOf(result))
            wide == RatMul(Rat(196, 100), damage_std)
            low68 == RatSub(damage, damage_std)
            low95 == RatSub(damage, wide)
        IN /\ result.raised = "none"
           /\ RatEq(DamageStdOf(result), damage_std)
           /\ RatEq(LowerOf(result.confidence_interval_68), RatMax(Rat(0, 1), low68))
           /\ RatEq(UpperOf(result.confidence_interval_68), RatAdd(damage, damage_std))
           /\ RatEq(LowerOf(result.confidence_interval_95), RatMax(Rat(0, 1), low95))
           /\ RatEq(UpperOf(result.confidence_interval_95), RatAdd(damage, wide))
           /\ RatLe(Rat(0, 1), LowerOf(result.confidence_interval_68))
           /\ RatLe(Rat(0, 1), LowerOf(result.confidence_interval_95))

\* An analysis of a positive damage whose 95% lower bound is clamped to 0
\* while its 68% lower bound stays positive.
C20_Witness ==
    /\ call.op \in {"_calculate_uncertainty", "_calculate_jrc_uncertainty"}
    /\ call.economic_damage.n > 0
    /\ LowerOf(result.confidence_interval_95).n = 0
    /\ LowerOf(result.confidence_interval_68).n > 0
    /\ RatLe(RatSub(call.economic_damage, RatMul(Rat(196, 100), DamageStdOf(result))), Rat(-1, 1))

(***************************************************************************)
(* The default economic record of the Enhanced calculator.                 *)
(***************************************************************************)
\* The country table of the instance holds a record of the country code.
HasCountryRecord(ref, country_code) ==
    \E i \in 1..Len(ref.country_data) : ref.country_data[i].country_code = country_code

\* C21: a damage calculation given a country code that has no economic
\* record returns without raising, values the building with the DEFAULT
\* record (a GDP per capita of 25000), and returns a provenance that differs
\* from the provenance of the same calculation on a country that has a record.
C21_DefaultCountryIndicated ==
    (/\ call.op = "calculate_enhanced_damage"
     /\ ValidArgs(call.op, call.args)
     /\ call.args.country_code # "None"
     /\ ~HasCountryRecord(reference_data, call.args.country_code))
        => /\ result.raised = "none"
           /\ RatEq(result.value_per_m2, CalculateAdjustedValuePerM2([gdp_per_capita |-> 25000]))
           /\ \A known \in {"US"} :
                  LET r == SingleCalc(call.op, [call.args EXCEPT !.country_code = known])
                  IN (HasCountryRecord(reference_data, known) /\ r.raised = "none")
                         => Provenance(r) # Provenance(result)

(***************************************************************************)
(* Extreme-value analysis: ISIMIPDataProcessor and                         *)
(* ClimadaFloodAnalyzer.calculate_return_period_from_data.  A time series  *)
(* is a sequence of rows [year, value] in date order, the value being      *)
(* << >> for NaN and <<v>> otherwise; a sample is a sequence of integers.  *)
(* scipy's fit is a library call: its result is represented by the record  *)
(* [shape, location, scale] with the sample minimum as location and the    *)
(* sample range plus one as scale, and its quantile function by a function *)
(* that rises with the return period.  The fit keeps the scale positive;   *)
(* on a sample with fewer than two distinct values it may also fail.       *)
(***************************************************************************)
MaxYears == 2

MinEvents == 10

MaxOf(S) == CHOOSE x \in S : \A y \in S : y <= x

MinOf(S) == CHOOSE x \in S : \A y \in S : x <= y

\* groupby(pd.Grouper(freq='Y')).max() followed by the NaN filter: the
\* maximum of each calendar year that has a value, in ascending year order.
YearlyMaxima(rows) ==
    LET Valued(y) == {rows[i].value[1] : i \in {j \in 1..Len(rows) : rows[j].year = y /\ ~IsNone(rows[j].value)}}
        years == SortedSeq({rows[i].year : i \in {j \in 1..Len(rows) : ~IsNone(rows[j].value)}})
    IN [k \in 1..Len(years) |-> MaxOf(Valued(years[k]))]

\* series[~np.isnan(series)]: the values that are not NaN, in their order.
DropNan(rows) ==
    LET NotNan(r) == ~IsNone(r.value)
        kept == SelectSeq(rows, NotNan)
    IN [k \in 1..Len(kept) |-> kept[k].value[1]]

\* ISIMIPDataProcessor.__init__
NewProcessor(location) ==
    [location |-> location, rainfall_data |-> << >>, discharge_data |-> << >>]

\* The dates of generate_historical_data: two days stand for the first year
\* and one day for each later year.
DatesOf(years) == [i \in 1..(years + 1) |-> 2000 + Max(0, i - 2)]

\* ISIMIPDataProcessor.generate_historical_data: the frames it stores, for
\* the random draws rainfall and discharge.
GenerateHistoricalData(processor, years, rainfall, discharge) ==
    LET dates == DatesOf(years)
        rainfall_df == [i \in 1..Len(dates) |-> [year |-> dates[i], value |-> <<rainfall[i]>>]]
        discharge_df == [i \in 1..Len(dates) |-> [year |-> dates[i], value |-> <<discharge[i]>>]]
    IN [processor EXCEPT !.rainfall_data = <<rainfall_df>>, !.discharge_data = <<discharge_df>>]

\* ISIMIPDataProcessor.extract_annual_maxima
ExtractAnnualMaxima(processor, data_series) ==
    IF ~IsNone(processor.rainfall_data)
    THEN YearlyMaxima(processor.rainfall_data[1])
    ELSE DropNan(data_series)

\* stats.genextreme.fit(sample) on a sample of at least one value: the set
\* of its outcomes.
GenextremeFit(sample) ==
    LET fitted == [raised |-> "none", shape |-> 0, location |-> MinOf(Range(sample)),
                   scale |-> MaxOf(Range(sample)) - MinOf(Range(sample)) + 1]
    IN IF Cardinality(Range(sample)) >= 2 THEN {fitted}
       ELSE {fitted, [raised |-> "FitError"]}

\* ISIMIPDataProcessor.fit_gev_distribution: the set of its outcomes.
FitGevDistribution(annual_maxima) == GenextremeFit(annual_maxima)

ReturnPeriodsFromData == << 2, 5, 10, 25, 50, 100, 250, 500, 1000 >>

\* stats.genextreme.ppf(1 - 1/rp, shape, loc, scale) at the k-th period
Ppf(params, k) == params.location + params.scale * k

\* ClimadaFloodAnalyzer.calculate_return_period_from_data: the set of its
\* outcomes; rows is << >> for the empty DataFrame.
CalculateReturnPeriodFromData(flood_events) ==
    LET Positive(v) == v > 0
        events == SelectSeq(flood_events, Positive)
        Table(params) ==
            [k \in 1..Len(ReturnPeriodsFromData) |->
                [return_period_years |-> ReturnPeriodsFromData[k],
                 flood_magnitude |-> Ppf(params, k),
                 annual_probability |-> Rat(1, ReturnPeriodsFromData[k])]]
    IN IF Len(events) < MinEvents THEN {[raised |-> "none", rows |-> << >>]}
       ELSE {[raised |-> "none",
              rows |-> IF params.raised = "none" THEN Table(params) ELSE << >>] :
                 params \in GenextremeFit(events)}

\* ISIMIPDataProcessor.calculate_flood_probabilities up to the fits: the
\* analysis returned for the two fit outcomes.
FloodProbabilityAnalysis(processor, rainfall_gev, discharge_gev) ==
    LET rainfall_maxima == ExtractAnnualMaxima(processor, processor.rainfall_data[1])
        discharge_maxima == ExtractAnnualMaxima(processor, processor.discharge_data[1])
    IN IF rainfall_gev.raised # "none" THEN [raised |-> rainfall_gev.raised]
       ELSE IF discharge_gev.raised # "none" THEN [raised |-> discharge_gev.raised]
       ELSE [raised |-> "none", location |-> processor.location,
             rainfall |-> [annual_maxima |-> rainfall_maxima, gev_params |-> rainfall_gev],
             discharge |-> [annual_maxima |-> discharge_maxima, gev_params |-> discharge_gev]]

(***************************************************************************)
(* SpecGev: a processor, or an analyzer, and the calls of the analysis.    *)
(***************************************************************************)
DailyValues == {1, 6}

SeriesValues == {<< >>, <<2>>, <<9>>}

SeriesRows == {[year |-> y, value |-> v] : y \in {2000, 2001}, v \in SeriesValues}

\* Time series of at most MaxYears days, in date order.
SeriesSet ==
    {s \in UNION {[1..n -> SeriesRows] : n \in 0..MaxYears} :
        \A i, j \in 1..Len(s) : i < j => s[i].year <= s[j].year}

SampleSizes == {1, 9, 10, 12}

\* Samples of equal or evenly spaced values; the first value may be zero.
Samples ==
    {[i \in 1..n |-> base + step * (i - 1)] : n \in SampleSizes, base \in {0, 3}, step \in {0, 2}}

InitGev ==
    /\ calc \in {"ISIMIPDataProcessor", "ClimadaFloodAnalyzer"}
    /\ constructed = TRUE
    /\ data_files = {}
    /\ damage_functions = << >>
    /\ reference_data = NewProcessor("Kelantan")
    /\ call = NoCall
    /\ result = NoResult

GenerateHistoricalDataCall ==
    /\ calc = "ISIMIPDataProcessor"
    /\ \E years \in 1..MaxYears :
         \E rainfall \in [1..(years + 1) -> DailyValues], discharge \in [1..(years + 1) -> DailyValues] :
            /\ reference_data' = GenerateHistoricalData(reference_data, years, rainfall, discharge)
            /\ call' = [op |-> "generate_historical_data", years |-> years]
            /\ result' = [raised |-> "none"]
    /\ UNCHANGED <<calc, constructed, data_files, damage_functions>>

ExtractAnnualMaximaCall ==
    /\ calc = "ISIMIPDataProcessor"
    /\ \E data_series \in SeriesSet \cup Range(reference_data.discharge_data) :
            /\ call' = [op |-> "extract_annual_maxima", data_series |-> data_series]
            /\ result' = [raised |-> "none",
                          values |-> ExtractAnnualMaxima(reference_data, data_series)]
    /\ UNCHANGED <<calc, constructed, data_files, damage_functions, reference_data>>

FitGevDistributionCall ==
    /\ calc = "ISIMIPDataProcessor"
    /\ \E annual_maxima \in Samples :
         \E outcome \in FitGevDistribution(annual_maxima) :
            /\ call' = [op |-> "fit_gev_distribution", sample |-> annual_maxima]
            /\ result' = outcome
    /\ UNCHANGED <<calc, constructed, data_files, damage_functions, reference_data>>

CalculateFloodProbabilitiesCall ==
    /\ calc = "ISIMIPDataProcessor"
    /\ \E years \in 1..MaxYears :
         \E rainfall \in [1..(years + 1) -> DailyValues], discharge \in [1..(years + 1) -> DailyValues] :
            LET processor == GenerateHistoricalData(reference_data, years, rainfall, discharge)
                rainfall_maxima == ExtractAnnualMaxima(processor, processor.rainfall_data[1])
                discharge_maxima == ExtractAnnualMaxima(processor, processor.discharge_data[1])
            IN \E rainfall_gev \in FitGevDistribution(rainfall_maxima),
                  discharge_gev \in FitGevDistribution(discharge_maxima) :
                    /\ reference_data' = processor
                    /\ call' = [op |-> "calculate_flood_probabilities", years |-> years]
                    /\ result' = FloodProbabilityAnalysis(processor, rainfall_gev, discharge_gev)
    /\ UNCHANGED <<calc, constructed, data_files, damage_functions>>

CalculateReturnPeriodFromDataCall ==
    /\ calc = "ClimadaFloodAnalyzer"
    /\ \E flood_events \in Samples :
         \E outcome \in CalculateReturnPeriodFromData(flood_events) :
            /\ call' = [op |-> "calculate_return_period_from_data", sample |-> flood_events]
            /\ result' = outcome
    /\ UNCHANGED <<calc, constructed, data_files, damage_functions, reference_data>>

NextGev ==
    \/ GenerateHistoricalDataCall
    \/ ExtractAnnualMaximaCall
    \/ FitGevDistributionCall
    \/ CalculateFloodProbabilitiesCall
    \/ CalculateReturnPeriodFromDataCall

SpecGev == InitGev /\ [][NextGev]_vars

\* A sample of at least two distinct positive values.
WellBehaved(sample) ==
    /\ Cardinality(Range(sample)) >= 2
    /\ \A i \in 1..Len(sample) : sample[i] > 0

\* C22: GEV fitting on fewer than 10 samples fails with the typed
\* insufficient-data error, returning neither parameters nor a table, and on
\* at least 10 well-behaved samples it returns parameters with scale > 0.
C22_InsufficientSamplesRaise ==
    /\ (call.op \in {"fit_gev_distribution", "calculate_return_period_from_data"}
            /\ Len(call.sample) < MinEvents)
           => result.raised = "InsufficientDataError"
    /\ (call.op = "fit_gev_distribution" /\ Len(call.sample) >= MinEvents
            /\ WellBehaved(call.sample))
           => (result.raised = "none" /\ result.scale > 0)

\* C24: extract_annual_maxima applied to a time series returns one value per
\* calendar year that the series has a value in, the maximum of that series
\* within the year with NaN left out; the annual maxima that
\* calculate_flood_probabilities reports for the discharge are the yearly
\* maxima of the discharge series it generated.
C24_MaximaOfGivenSeries ==
    /\ call.op = "extract_annual_maxima"
           => (result.raised = "none" /\ result.values = YearlyMaxima(call.data_series))
    /\ (call.op = "calculate_flood_probabilities" /\ result.raised = "none")
           => /\ result.rainfall.annual_maxima = YearlyMaxima(reference_data.rainfall_data[1])
              /\ result.discharge.annual_maxima = YearlyMaxima(reference_data.discharge_data[1])

(***************************************************************************)
(* ClimadaFloodAnalyzer with its own api_client: loading, the flood        *)
(* probability and the expected annual impact on the loaded frame.         *)
(*                                                                         *)
(* A CLIMADA frame is observed through the rows of TrackedLocations, in    *)
(* the order of the client's list; the rows of the other locations come    *)
(* from the same loop body and are never read by a query for a tracked or  *)
(* an unknown location.  Money is in 10^9 USD.  The impact sum is taken in *)
(* integers: an intensity in units of 25 * 10^-7 m, a probability in       *)
(* 500ths.  1 - (1 - p) ** years has a fractional exponent and is held as  *)
(* the pair of p and years.                                                *)
(***************************************************************************)
TrackedLocations == << "Malaysia (Country)", "Kelantan" >>

TotalExposureLitPop == 350

IntensityCap == 30000000

IntensityUnit == 25

ProbabilityUnit == 500

\* The draws of a frame of n rows: every combination for up to two rows,
\* and for longer frames the equal draws and the alternating ones.
FrameNoises(n) ==
    IF n <= 2 THEN [1..n -> Noises]
    ELSE {[i \in 1..n |-> v] : v \in Noises}
            \cup {[i \in 1..n |-> IF i % 2 = 1 THEN -600 ELSE 200]}

\* ClimadaAPIClient.get_flood_hazard_malaysia, the rows of the tracked
\* locations: location by location, one row per return period.
TrackedHazardFrame(scenario, return_periods, noise) ==
    LET n == Len(return_periods)
    IN [k \in 1..(Len(TrackedLocations) * n) |->
           FloodHazardRow(TrackedLocations[((k - 1) \div n) + 1],
                          return_periods[((k - 1) % n) + 1], scenario, noise[k])]

\* The fits the generated ISIMIP data can yield, as far as the analyzer
\* specification follows them.
AnalyzerFits ==
    {<<r, d>> \in RainfallFits \X DischargeFits : r[5] = 120 /\ d[5] = 2000}

\* ClimadaFloodAnalyzer.load_flood_hazard with its own client: the analyzers
\* it can leave behind.
LoadFloodHazardFrames(ref, scenario, return_periods, location) ==
    LET periods == IF IsNone(return_periods) THEN ClimadaDefaultPeriods ELSE return_periods[1]
        FromClient(r) ==
            { [r EXCEPT !.hazard_data = <<TrackedHazardFrame(scenario, periods, noise)>>] :
                noise \in FrameNoises(Len(TrackedLocations) * Len(periods)) }
    IN IF ref.use_isimip /\ IsNone(return_periods)
       THEN IF ref.isimip_importable
            THEN { [ref EXCEPT !.hazard_data = <<CalculateIsimipFloodRisk(location, scenario, fits[1], fits[2])>>] :
                      fits \in AnalyzerFits }
            ELSE FromClient([ref EXCEPT !.use_isimip = FALSE])
       ELSE FromClient(ref)

\* ClimadaFloodAnalyzer.load_exposure with its own client
LoadExposureLitPop(ref) ==
    [ref EXCEPT !.exposure_data = << [total_exposure_usd |-> TotalExposureLitPop] >>]

\* if self.hazard_data is None: self.load_flood_hazard()
WithHazard(ref) ==
    IF IsNone(ref.hazard_data)
    THEN LoadFloodHazardFrames(ref, "historical", << >>, "Malaysia (Country)")
    ELSE {ref}

\* ClimadaFloodAnalyzer.calculate_flood_probability on a loaded analyzer;
\* zero is the 0.0 returned when no row matches.
FloodProbability(ref, location, time_window_days, return_period) ==
    LET Matching(r) == r.location = location /\ r.return_period = return_period
        loc_data == SelectSeq(ref.hazard_data[1], Matching)
    IN IF loc_data = << >> THEN [raised |-> "none", zero |-> TRUE]
       ELSE [raised |-> "none", zero |-> FALSE,
             annual_prob |-> Rat(1, return_period),
             years |-> RatNorm(time_window_days * 100, 36525)]

\* ClimadaFloodAnalyzer.calculate_expected_annual_impact on a loaded
\* analyzer.  expected_annual_impact_usd is the product of its two fields.
AnnualImpact(ref, location) ==
    LET OfLocation(r) == r.location = location
        loc_hazard == SelectSeq(ref.hazard_data[1], OfLocation)
        location_exposure == LocationExposure(ref.exposure_data[1].total_exposure_usd, location)
        Capped(i) == Min(IntensityCap, loc_hazard[i].flood_intensity_m) \div IntensityUnit
        terms == [i \in 1..Len(loc_hazard) |-> (ProbabilityUnit \div loc_hazard[i].return_period) * Capped(i)]
        eai_ratio == RatNorm(SumSeq(terms), ProbabilityUnit * (IntensityCap \div IntensityUnit))
    IN IF loc_hazard = << >> THEN EmptyImpact
       ELSE [raised |-> "none", empty |-> FALSE, location |-> location,
             expected_annual_impact_usd |-> [exposure |-> location_exposure, ratio |-> eai_ratio],
             exposure_usd |-> location_exposure,
             eai_ratio |-> eai_ratio,
             return_period_impacts |->
                 [i \in 1..Len(loc_hazard) |->
                     [return_period |-> loc_hazard[i].return_period,
                      probability |-> loc_hazard[i].annual_probability,
                      flood_intensity_m |-> loc_hazard[i].flood_intensity_m,
                      damage_ratio |-> RatNorm(Capped(i), IntensityCap \div IntensityUnit)]]]

(***************************************************************************)
(* SpecAnalyzer: a default analyzer, built with or without ISIMIP, in an   *)
(* environment where isimip_probability can or cannot be imported.         *)
(***************************************************************************)
\* The arguments of load_flood_hazard: the defaults, another scenario and
\* location, and explicit return periods.
LoadArguments ==
    { <<"historical", << >>, "Malaysia (Country)">>,
      <<"rcp85", << >>, "Kelantan">>,
      <<"historical", << <<100>> >>, "Malaysia (Country)">>,
      <<"rcp85", << <<10>> >>, "Kelantan">> }

QueryLocations == {"Malaysia (Country)", "Kelantan", "Kuala Lumpur"}

InitAnalyzer ==
    /\ calc = "ClimadaFloodAnalyzer"
    /\ constructed = TRUE
    /\ data_files = {}
    /\ damage_functions = << >>
    /\ \E use_isimip \in BOOLEAN, isimip_importable \in BOOLEAN :
          reference_data = [use_isimip |-> use_isimip, isimip_importable |-> isimip_importable,
                            hazard_data |-> << >>, exposure_data |-> << >>]
    /\ call = NoCall
    /\ result = NoResult

AnalyzerLoadFloodHazardCall ==
    /\ calc = "ClimadaFloodAnalyzer"
    /\ \E args \in LoadArguments :
         \E ref \in LoadFloodHazardFrames(reference_data, args[1], args[2], args[3]) :
            /\ reference_data' = ref
            /\ call' = [op |-> "load_flood_hazard", scenario |-> args[1],
                        return_periods |-> args[2], location |-> args[3]]
            /\ result' = [raised |-> "none", rows |-> ref.hazard_data[1]]
    /\ UNCHANGED <<calc, constructed, data_files, damage_functions>>

AnalyzerLoadExposureCall ==
    /\ calc = "ClimadaFloodAnalyzer"
    /\ reference_data' = LoadExposureLitPop(reference_data)
    /\ call' = [op |-> "load_exposure"]
    /\ result' = [raised |-> "none", total_exposure_usd |-> TotalExposureLitPop]
    /\ UNCHANGED <<calc, constructed, data_files, damage_functions>>

CalculateFloodProbabilityCall ==
    /\ calc = "ClimadaFloodAnalyzer"
    /\ \E location \in QueryLocations, time_window_days \in {30, 365}, return_period \in {5, 100} :
         \E loaded \in WithHazard(reference_data) :
            /\ reference_data' = loaded
            /\ call' = [op |-> "calculate_flood_probability", location |-> location,
                        time_window_days |-> time_window_days, return_period |-> return_period]
            /\ result' = FloodProbability(loaded, location, time_window_days, return_period)
    /\ UNCHANGED <<calc, constructed, data_files, damage_functions>>

AnalyzerExpectedAnnualImpactCall ==
    /\ calc = "ClimadaFloodAnalyzer"
    /\ \E location \in QueryLocations :
         \E with_hazard \in WithHazard(reference_data) :
            LET loaded == IF IsNone(with_hazard.exposure_data)
                          THEN LoadExposureLitPop(with_hazard) ELSE with_hazard
            IN /\ reference_data' = loaded
               /\ call' = [op |-> "calculate_expected_annual_impact", location |-> location]
               /\ result' = AnnualImpact(loaded, location)
    /\ UNCHANGED <<calc, constructed, data_files, damage_functions>>

NextAnalyzer ==
    \/ AnalyzerLoadFloodHazardCall
    \/ AnalyzerLoadExposureCall
    \/ CalculateFloodProbabilityCall
    \/ AnalyzerExpectedAnnualImpactCall

SpecAnalyzer == InitAnalyzer /\ [][NextAnalyzer]_vars

\* The call is load_flood_hazard() with its default arguments.
DefaultLoad(c) ==
    /\ c.op = "load_flood_hazard"
    /\ c.scenario = "historical" /\ IsNone(c.return_periods)
    /\ c.location = "Malaysia (Country)"

\* C23: right after load_flood_hazard() with default arguments,
\* calculate_flood_probability('Kuala Lumpur', 30, 100) is in (0, 1], and
\* calculate_expected_annual_impact('Kuala Lumpur') returns a result that
\* holds exposure_usd, eai_ratio and an expected annual impact above 0.
C23_KualaLumpurCovered ==
    [][DefaultLoad(call) =>
          /\ (call'.op = "calculate_flood_probability" /\ call'.location = "Kuala Lumpur"
                 /\ call'.time_window_days = 30 /\ call'.return_period = 100)
               => (result'.raised = "none" /\ ~result'.zero
                      /\ result'.annual_prob.n > 0 /\ RatLe(result'.annual_prob, Rat(1, 1))
                      /\ result'.years.n > 0)
          /\ (call'.op = "calculate_expected_annual_impact" /\ call'.location = "Kuala Lumpur")
               => (result'.raised = "none" /\ ~result'.empty
                      /\ result'.expected_annual_impact_usd.exposure.n > 0
                      /\ result'.expected_annual_impact_usd.ratio.n > 0)]_vars

\* The analyzer as its constructor leaves it, in the same environment.
FreshAnalyzer(ref) == [ref EXCEPT !.hazard_data = << >>, !.exposure_data = << >>]

\* The results the last call can return on a fresh analyzer.
FreshResults ==
    IF call.op = "calculate_flood_probability"
    THEN {FloodProbability(loaded, call.location, call.time_window_days, call.return_period) :
             loaded \in WithHazard(FreshAnalyzer(reference_data))}
    ELSE {AnnualImpact(LoadExposureLitPop(loaded), call.location) :
             loaded \in WithHazard(FreshAnalyzer(reference_data))}

\* C26: for fixed arguments, calculate_flood_probability and
\* calculate_expected_annual_impact return, after any sequence of earlier
\* calls on the analyzer, a result that the same call returns on an analyzer
\* on which no call was made: the result does not depend on the scenario,
\* location or return periods of an earlier load_flood_hazard.
C26_ResultsIndependentOfHistory ==
    call.op \in {"calculate_flood_probability", "calculate_expected_annual_impact"}
        => result \in FreshResults

(***************************************************************************)
(* What the calculations leave in the instance.  The DataManager of a      *)
(* FloodDamageCalculator starts with its three frames unset and loads      *)
(* each on the first lookup that needs it; `loaded` names the frames that  *)
(* are set.  The enhanced and JRC calculators load in their constructors.  *)
(***************************************************************************)
\* What damage_functions.parquet holds here: rows that are not in depth order.
UnsortedFloodFileRows == FloodRows("residential", << <<20, 1000>>, <<0, 0>> >>)

\* DataManager.__init__
NewDataManager ==
    [table |-> <<>>,
     ref |-> [country_data |-> <<>>, max_damage_data |-> <<>>, iso_table |-> <<>>,
              land_use_data |-> <<>>, building_types |-> <<>>, loaded |-> {}]]

\* The instance after get_land_use_at_location: the frame is loaded when it is
\* unset and its file exists (load_parquet_file raises otherwise).
AfterGetLandUseAtLocation(files, manager) ==
    IF "land_use_data" \in manager.ref.loaded \/ LandUseFile \notin files THEN manager
    ELSE [manager EXCEPT !.ref.land_use_data = LandUseFileRows,
                         !.ref.loaded = @ \cup {"land_use_data"}]

\* The instance after get_building_type_at_location
AfterGetBuildingTypeAtLocation(files, manager) ==
    IF "building_types" \in manager.ref.loaded \/ BuildingTypesFile \notin files
    THEN manager
    ELSE [manager EXCEPT !.ref.building_types = BuildingTypesFileRows,
                         !.ref.loaded = @ \cup {"building_types"}]

\* As AfterGetDamageFunction, with the mask applied to the stored frame instead
\* of to a copy.
AfterGetDamageFunction_FiltersInPlace(files, manager, land_use_type, building_type) ==
    LET Mask(r) == r.land_use_type = land_use_type /\ r.building_type = building_type
        stored == IF "damage_functions" \in manager.ref.loaded THEN manager.table
                  ELSE UnsortedFloodFileRows
    IN IF "damage_functions" \notin manager.ref.loaded /\ DamageFunctionsFile \notin files
       THEN manager
       ELSE [manager EXCEPT !.table = SelectSeq(stored, Mask),
                            !.ref.loaded = @ \cup {"damage_functions"}]

\* The instance after get_damage_function: the frame is loaded when it is unset;
\* the mask, the column selection and sort_values build new frames.
AfterGetDamageFunction(files, manager, land_use_type, building_type) ==
    IF "damage_functions" \in manager.ref.loaded \/ DamageFunctionsFile \notin files
    THEN manager
    ELSE [manager EXCEPT !.table = UnsortedFloodFileRows,
                         !.ref.loaded = @ \cup {"damage_functions"}]

\* The instance after calculate_damage: validation comes before any lookup, then
\* _infer_missing_data and _get_damage_function make their lookups.
AfterCalculateDamage(files, manager, latitude, longitude, flood_depth, land_use_type, building_type, area, value_per_m2) ==
    LET input_data ==
            [present |-> {"latitude", "longitude", "flood_depth"}
                           \cup (IF Truthy(area) THEN {"area"} ELSE {}),
             latitude |-> latitude, longitude |-> longitude,
             flood_depth |-> flood_depth, area |-> area]
        m1 == IF land_use_type = "None"
              THEN AfterGetLandUseAtLocation(files, manager) ELSE manager
        m2 == IF building_type = "None" \/ IsNone(value_per_m2)
              THEN AfterGetBuildingTypeAtLocation(files, m1) ELSE m1
        inferred_data == InferMissingData(files, m2.ref, latitude[1], longitude[1],
                                          land_use_type, building_type, area,
                                          value_per_m2)
    IN IF ValidateInputData(input_data) # "ok" THEN manager
       ELSE AfterGetDamageFunction(files, m2, inferred_data.land_use_type,
                                   inferred_data.building_type)

\* The instance after the first i items of calculate_damage_batch
RECURSIVE AfterBatch(_, _, _, _)
AfterBatch(files, manager, locations, i) ==
    IF i = 0 THEN manager
    ELSE LET before == AfterBatch(files, manager, locations, i - 1)
             location == locations[i]
         IN IF ~({"latitude", "longitude", "flood_depth"} \subseteq location.keys)
               \/ ~(location.keys \subseteq CalculateDamageParameters)
            THEN before
            ELSE AfterCalculateDamage(files, before, location.latitude,
                     location.longitude, location.flood_depth, location.land_use_type,
                     location.building_type, location.area, location.value_per_m2)

FrameConstruct ==
    /\ ~constructed
    /\ \/ /\ calc = "FloodDamageCalculator"
          /\ constructed' = TRUE
          /\ damage_functions' = NewDataManager.table
          /\ reference_data' = NewDataManager.ref
          /\ result' = [raised |-> "none"]
       \/ ConstructEnhanced
       \/ ConstructJrc
    /\ call' = [op |-> "__init__"]
    /\ UNCHANGED <<calc, data_files>>

FrameCalculateDamageCall ==
    /\ constructed /\ calc = "FloodDamageCalculator"
    /\ \E at \in { << <<40>>, <<-100>>, <<15>> >>, << <<40>>, <<-100>>, <<201>> >>,
                   << <<>>, <<-100>>, <<15>> >> },
          land_use_type \in {"None", "residential"},
          building_type \in {"None", "single_family"},
          area \in {<<>>, <<-5>>}, value_per_m2 \in {<<>>, <<2000>>} :
          LET after == AfterCalculateDamage(data_files,
                           [table |-> damage_functions, ref |-> reference_data],
                           at[1], at[2], at[3], land_use_type, building_type, area,
                           value_per_m2)
          IN
          /\ call' = [op |-> "calculate_damage",
                      args |-> Location(AllKeys, at[1], at[2], at[3], "None",
                                        land_use_type, building_type, area, <<>>,
                                        value_per_m2, "None")]
          /\ damage_functions' = after.table
          /\ reference_data' = after.ref
          /\ result' = CalculateDamage(data_files, after.table, after.ref, at[1],
                                       at[2], at[3], land_use_type, building_type,
                                       area, value_per_m2)
    /\ UNCHANGED <<calc, constructed, data_files>>

FrameCalculateDamageBatchCall ==
    /\ constructed /\ calc = "FloodDamageCalculator"
    /\ \E locations \in BatchInputs :
          LET after == AfterBatch(data_files,
                           [table |-> damage_functions, ref |-> reference_data],
                           locations, Len(locations))
          IN
          /\ call' = [op |-> "calculate_damage_batch", locations |-> locations]
          /\ damage_functions' = after.table
          /\ reference_data' = after.ref
          /\ result' = BatchLoop("calculate_damage_batch", data_files, after.table,
                                 after.ref, locations, 0, <<>>)
    /\ UNCHANGED <<calc, constructed, data_files>>

FrameOtherBatchCall ==
    /\ calc # "FloodDamageCalculator"
    /\ CalculateDamageBatchCall

NextFrame ==
    \/ FrameConstruct
    \/ FrameCalculateDamageCall
    \/ FrameCalculateDamageBatchCall
    \/ CalculateEnhancedDamageCall
    \/ CalculateJrcDamageCall
    \/ FrameOtherBatchCall

SpecFrame == InitCalc /\ [][NextFrame]_vars

\* The frames the instance holds: of a DataManager those that are set, of the
\* other calculators every frame.
HeldFrames(c, ref) ==
    IF c = "FloodDamageCalculator" THEN ref.loaded
    ELSE {"damage_functions", "country_data", "max_damage_data", "iso_table"}

StoredFrame(name, table, ref) ==
    IF name = "damage_functions" THEN table ELSE ref[name]

\* C25: once a calculator is constructed, no single or batch calculation, whether
\* it succeeds or fails, changes a reference table the instance has loaded: every
\* frame held before the call is held after it with the same rows.
C25_LoadedTablesUnchanged ==
    [][constructed =>
           \A name \in HeldFrames(calc, reference_data) :
               /\ name \in HeldFrames(calc', reference_data')
               /\ StoredFrame(name, damage_functions', reference_data')
                      = StoredFrame(name, damage_functions, reference_data)]_vars

\* A batch on a DataManager whose first item succeeded on the table's function and
\* whose second item failed, with the damage functions loaded.
C25_Witness ==
    /\ constructed /\ calc = "FloodDamageCalculator"
    /\ call.op = "calculate_damage_batch"
    /\ "damage_functions" \in reference_data.loaded
    /\ damage_functions = UnsortedFloodFileRows
    /\ Len(result.entries) = 2
    /\ result.entries[1].error = "none"
    /\ "generic_curve" \notin result.entries[1].result.fallbacks
    /\ result.entries[2].error # "none"

\* C27: after the analyzer has processed its historical data (a rainfall
\* column, an event_type column, or both), the count of every event type is at
\* most total_days, so the daily probability event_count / total_days that
\* calculate_event_probability uses lies within [0, 1].
C27_CountsAtMostDays ==
    \A key \in DOMAIN reference_data.event_counts :
        /\ 0 <= reference_data.event_counts[key]
        /\ reference_data.event_counts[key] <= reference_data.total_days

(***************************************************************************)
(* SpecResult: whole damage results, the uncertainty analysis included, of *)
(* calculators constructed over all their reference files.                 *)
(***************************************************************************)
\* The standard-deviation columns of damage_functions_jrc.parquet.
JrcStdRows ==
    << [damage_class |-> "Residential buildings", region |-> "North AMERICA",
        standard_deviation |-> <<Rat(150, 1000)>>] >>

InitResult ==
    /\ calc \in Classes
    /\ constructed = TRUE
    /\ data_files = FilesOf(calc)
    /\ damage_functions =
           CASE calc = "FloodDamageCalculator" -> FloodFileRows
             [] calc = "EnhancedFloodDamageCalculator" ->
                    EnhancedLoadDamageFunctions(data_files, EnhancedFileRows)
             [] calc = "JRCFloodDamageCalculator" -> JrcFileRows
    /\ reference_data =
           [country_data |-> CountryFileRows,
            max_damage_data |-> [t \in {"residential"} |-> MaxDamageResidentialRows],
            iso_table |-> IsoTableRows,
            land_use_data |-> LandUseFileRows,
            building_types |-> BuildingTypesFileRows,
            uncertainty_data |-> LoadUncertaintyData({}, << >>),
            jrc_std |-> JrcStdRows]
    /\ call = NoCall
    /\ result = NoResult

\* Depths of 1.5 m, of no water and beyond the accepted range, at one place.
ResultPositions ==
    { << <<40>>, <<-100>>, <<15>> >>, << <<40>>, <<-100>>, <<0>> >>,
      << <<40>>, <<-100>>, <<201>> >> }

\* No area, an area of zero, an ordinary area and a negative area.
ResultAreas == {<<>>, <<0>>, <<50>>, <<-5>>}

\* calculate_damage: the result carries no uncertainty analysis.
ResultCalculateDamageCall ==
    /\ calc = "FloodDamageCalculator"
    /\ \E at \in ResultPositions, land_use_type \in {"None", "residential"},
          area \in ResultAreas, value_per_m2 \in {<<>>, <<2000>>} :
          LET damage == CalculateDamage(data_files, damage_functions, reference_data,
                                        at[1], at[2], at[3], land_use_type, "None",
                                        area, value_per_m2)
          IN
          /\ call' = [op |-> "calculate_damage", area |-> area, flood_depth |-> at[3]]
          /\ result' = [raised |-> damage.raised, damage |-> damage,
                        uncertainty_analysis |-> << >>]
    /\ UNCHANGED <<calc, constructed, data_files, damage_functions, reference_data>>

\* calculate_enhanced_damage with its uncertainty analysis
ResultCalculateEnhancedDamageCall ==
    /\ calc = "EnhancedFloodDamageCalculator"
    /\ \E at \in ResultPositions, country_code \in {"None", "US", "ZZ"},
          building_type \in {"None", "commercial"}, area \in ResultAreas,
          include_uncertainty \in BOOLEAN :
          LET damage == CalculateEnhancedDamage(data_files, damage_functions,
                            reference_data, at[1], at[2], at[3], country_code,
                            building_type, area)
          IN
          /\ call' = [op |-> "calculate_enhanced_damage", area |-> area,
                      flood_depth |-> at[3]]
          /\ result' =
                 [raised |-> damage.raised, damage |-> damage,
                  uncertainty_analysis |->
                      IF damage.raised = "none" /\ include_uncertainty
                      THEN << CalculateUncertainty(reference_data.uncertainty_data,
                                  damage.economic_damage, damage.building_type) >>
                      ELSE << >>]
    /\ UNCHANGED <<calc, constructed, data_files, damage_functions, reference_data>>

\* calculate_jrc_damage with its uncertainty analysis
ResultCalculateJrcDamageCall ==
    /\ calc = "JRCFloodDamageCalculator"
    /\ \E at \in ResultPositions, country_code \in {"None", "US", "DE"},
          building_type \in {"residential", "commercial"}, area_m2 \in ResultAreas,
          region \in {"None", "EUROPE"} :
          LET damage == CalculateJrcDamage(damage_functions, reference_data, at[1],
                            at[2], at[3], country_code, building_type, area_m2, region)
              region_used == IF region = "None"
                             THEN GetRegionForCountry(damage.country_code) ELSE region
          IN
          /\ call' = [op |-> "calculate_jrc_damage", area |-> area_m2,
                      flood_depth |-> at[3]]
          /\ result' =
                 [raised |-> damage.raised, damage |-> damage,
                  uncertainty_analysis |->
                      IF damage.raised = "none"
                      THEN << CalculateJrcUncertainty(reference_data.jrc_std,
                                  damage.economic_damage, building_type, region_used) >>
                      ELSE << >>]
    /\ UNCHANGED <<calc, constructed, data_files, damage_functions, reference_data>>

\* Batch items: a full position, a depth beyond the range, an item without its
\* latitude, and an item naming its country and carrying no coordinates.
ResultBatchItems ==
    { Location({"latitude", "longitude", "flood_depth"}, <<40>>, <<-100>>, <<15>>,
               "None", "None", "None", <<>>, <<>>, <<>>, "None"),
      Location({"latitude", "longitude", "flood_depth"}, <<40>>, <<-100>>, <<201>>,
               "None", "None", "None", <<>>, <<>>, <<>>, "None"),
      Location({"longitude", "flood_depth"}, <<>>, <<-100>>, <<15>>,
               "None", "None", "None", <<>>, <<>>, <<>>, "None"),
      Location({"flood_depth", "country_code", "area_m2"}, <<>>, <<>>, <<5>>,
               "DE", "None", "None", <<>>, <<50>>, <<>>, "None") }

\* calculate_damage_batch, calculate_damage_batch_enhanced and
\* calculate_damage_batch_jrc
ResultBatchCall ==
    /\ \E op \in BatchOpsOf(calc) \ {"calculate_damage_batch_by_country"},
          locations \in UNION {[1..n -> ResultBatchItems] : n \in 1..MaxBatch} :
          /\ call' = [op |-> op, locations |-> locations]
          /\ result' = BatchLoop(op, data_files, damage_functions, reference_data,
                                 locations, 0, <<>>)
    /\ UNCHANGED <<calc, constructed, data_files, damage_functions, reference_data>>

NextResult ==
    \/ ResultCalculateDamageCall
    \/ ResultCalculateEnhancedDamageCall
    \/ ResultCalculateJrcDamageCall
    \/ ResultBatchCall

SpecResult == InitResult /\ [][NextResult]_vars

\* lower <= upper of an interval, under either calculator's field names.
IntervalOrdered(interval) ==
    IF "lower" \in DOMAIN interval THEN RatLe(interval.lower, interval.upper)
    ELSE RatLe(interval.lower_eur, interval.upper_eur)

\* C28: every successful damage result has a total value of at least 0 and an
\* economic damage of at least 0, and each confidence interval it carries has
\* lower <= upper, for every input the calculator accepts (an area of zero or a
\* negative area included when the calculator does not reject it).
C28_ResultsNonNegative ==
    (call.op \in SingleOps /\ result.raised = "none") =>
        /\ RatLe(Rat(0, 1), result.damage.total_value)
        /\ RatLe(Rat(0, 1), result.damage.economic_damage)
        /\ \A i \in 1..Len(result.uncertainty_analysis) :
               /\ IntervalOrdered(result.uncertainty_analysis[i].confidence_interval_95)
               /\ IntervalOrdered(result.uncertainty_analysis[i].confidence_interval_68)

\* The single-item calculation called with the fields of a batch item as its
\* keyword arguments: calculate_damage(**item), calculate_enhanced_damage(**item)
\* (latitude, longitude and flood_depth have no default) and
\* calculate_jrc_damage(**item) (every parameter has a default).
SingleOfItem(op, files, table, ref, location) ==
    CASE op = "calculate_damage_batch" ->
             CalculateDamageOfLocation(files, table, ref, location)
      [] op = "calculate_damage_batch_enhanced" ->
             IF ~({"latitude", "longitude", "flood_depth"} \subseteq location.keys)
             THEN Failure("TypeError")
             ELSE CalculateEnhancedDamage(files, table, ref, location.latitude,
                      location.longitude, location.flood_depth, location.country_code,
                      location.building_type, location.area)
      [] op = "calculate_damage_batch_jrc" ->
             CalculateJrcDamage(table, ref, location.latitude, location.longitude,
                                location.flood_depth, location.country_code,
                                IF "building_type" \in location.keys
                                THEN location.building_type ELSE "residential",
                                location.area_m2, location.region)

\* C29: for every item of a batch, the batch entry is a success carrying the
\* same damage values exactly when the single-item calculation on the same
\* fields succeeds with those values; so calculate_damage_batch_jrc on an item
\* with a country_code and no coordinates gives what calculate_jrc_damage gives.
C29_BatchEqualsSingle ==
    call.op \in {"calculate_damage_batch", "calculate_damage_batch_enhanced",
                 "calculate_damage_batch_jrc"}
        => \A i \in 1..Len(call.locations) :
               LET entry == result.entries[i]
                   single == SingleOfItem(call.op, data_files, damage_functions,
                                          reference_data, call.locations[i])
               IN /\ (entry.error = "none") <=> (single.raised = "none")
                  /\ entry.error = "none" =>
                         /\ entry.result.total_value = single.total_value
                         /\ entry.result.damage_ratio = single.damage_ratio
                         /\ entry.result.economic_damage = single.economic_damage

(***************************************************************************)
(* The API session store of refactored_code/backend/main.py.               *)
(*                                                                         *)
(* session_data maps a session id to what was stored under it.  An id is   *)
(* a prefix and the timestamp of its creation; reference_data holds the    *)
(* store and the clock.  A response is its HTTP status and its detail.     *)
(***************************************************************************)
MaxClock == 1

SessionPrefixes == {"upload", "isimip", "sample"}
SessionIds == SessionPrefixes \X (0..MaxClock)

\* An id no request ever created.
UnknownId == <<"none", 0>>

Response(status, detail) == [raised |-> "none", status |-> status, detail |-> detail]

\* raise HTTPException(status_code=404, detail="Session not found")
SessionNotFound == Response(404, "Session not found")

\* except Exception as e: raise HTTPException(status_code=500, detail=f"{text}: {e}")
\* around a handler body: an HTTPException raised in the body is an Exception
\* and is caught with the rest.
Wrapped(status, text, response) ==
    IF response.status = 200 THEN response
    ELSE Response(status, text)

\* data_dict.get('rainfall') if isinstance(data_dict, dict) else data_dict
RainfallOf(stored) == IF stored.dict THEN "rainfall" \in stored.keys ELSE TRUE

\* The body of analyze_probabilities, predict_trend and get_rainfall_timeseries
RainfallBody(store, session_id) ==
    IF session_id \notin DOMAIN store THEN SessionNotFound
    ELSE IF ~RainfallOf(store[session_id])
    THEN Response(400, "No rainfall data found in session")
    ELSE Response(200, "ok")

\* The body of get_discharge_timeseries
DischargeBody(store, session_id) ==
    IF session_id \notin DOMAIN store THEN SessionNotFound
    ELSE IF ~store[session_id].dict \/ "discharge" \notin store[session_id].keys
    THEN Response(200, "No discharge data available")
    ELSE Response(200, "ok")

\* What a creating request stores: upload_data the frame itself, generate_data
\* a dict of frames.
StoredBy(prefix) ==
    CASE prefix = "upload" -> [dict |-> FALSE, keys |-> {}]
      [] prefix = "isimip" -> [dict |-> TRUE, keys |-> {"rainfall", "discharge"}]
      [] prefix = "sample" -> [dict |-> TRUE, keys |-> {"rainfall"}]

Put(store, session_id, stored) ==
    [s \in DOMAIN store \cup {session_id} |->
        IF s = session_id THEN stored ELSE store[s]]

Remove(store, session_id) == [s \in DOMAIN store \ {session_id} |-> store[s]]

InitSession ==
    /\ calc = "main"
    /\ constructed = TRUE
    /\ data_files = {}
    /\ damage_functions = << >>
    /\ reference_data = [session_data |-> << >>, now |-> 0]
    /\ call = NoCall
    /\ result = NoResult

\* upload_data: a CSV with or without the rainfall column
UploadData ==
    \E valid \in BOOLEAN, t \in reference_data.now..MaxClock :
        /\ call' = [op |-> "upload_data", valid |-> valid]
        /\ IF valid
           THEN /\ reference_data' =
                       [session_data |-> Put(reference_data.session_data,
                                             <<"upload", t>>, StoredBy("upload")),
                        now |-> t]
                /\ result' = Response(200, "Data uploaded successfully")
           ELSE /\ reference_data' = [reference_data EXCEPT !.now = t]
                /\ result' = Response(400, "Error processing file")
    /\ UNCHANGED <<calc, constructed, data_files, damage_functions>>

\* generate_data
GenerateData ==
    \E data_source \in {"ISIMIP Historical Data", "Generate Sample Data", "other"},
       t \in reference_data.now..MaxClock :
        LET prefix == IF data_source = "ISIMIP Historical Data" THEN "isimip"
                      ELSE "sample"
        IN
        /\ call' = [op |-> "generate_data", data_source |-> data_source]
        /\ IF data_source # "other"
           THEN /\ reference_data' =
                       [session_data |-> Put(reference_data.session_data,
                                             <<prefix, t>>, StoredBy(prefix)),
                        now |-> t]
                /\ result' = Response(200, "ok")
           ELSE /\ reference_data' = [reference_data EXCEPT !.now = t]
                /\ result' = Wrapped(500, "Error generating data",
                                     Response(400, "Invalid data source"))
    /\ UNCHANGED <<calc, constructed, data_files, damage_functions>>

\* The session ids requests name: those a creation can give, and one it cannot.
RequestIds == SessionIds \cup {UnknownId}

AnalyzeProbabilities ==
    /\ \E session_id \in RequestIds :
          /\ call' = [op |-> "analyze_probabilities", session_id |-> session_id]
          /\ result' = Wrapped(500, "Error analyzing probabilities",
                               RainfallBody(reference_data.session_data, session_id))
    /\ UNCHANGED <<calc, constructed, data_files, damage_functions, reference_data>>

PredictTrendRequest ==
    /\ \E session_id \in RequestIds :
          /\ call' = [op |-> "predict_trend", session_id |-> session_id]
          /\ result' = Wrapped(500, "Error predicting trend",
                               RainfallBody(reference_data.session_data, session_id))
    /\ UNCHANGED <<calc, constructed, data_files, damage_functions, reference_data>>

GetRainfallTimeseries ==
    /\ \E session_id \in RequestIds :
          /\ call' = [op |-> "get_rainfall_timeseries", session_id |-> session_id]
          /\ result' = Wrapped(500, "Error getting timeseries",
                               RainfallBody(reference_data.session_data, session_id))
    /\ UNCHANGED <<calc, constructed, data_files, damage_functions, reference_data>>

GetDischargeTimeseries ==
    /\ \E session_id \in RequestIds :
          /\ call' = [op |-> "get_discharge_timeseries", session_id |-> session_id]
          /\ result' = Wrapped(500, "Error getting discharge timeseries",
                               DischargeBody(reference_data.session_data, session_id))
    /\ UNCHANGED <<calc, constructed, data_files, damage_functions, reference_data>>

DeleteSession ==
    /\ \E session_id \in RequestIds :
          /\ call' = [op |-> "delete_session", session_id |-> session_id]
          /\ IF session_id \in DOMAIN reference_data.session_data
             THEN /\ reference_data' =
                         [reference_data EXCEPT
                              !.session_data = Remove(@, session_id)]
                  /\ result' = Response(200, "Session deleted successfully")
             ELSE /\ result' = SessionNotFound
                  /\ UNCHANGED reference_data
    /\ UNCHANGED <<calc, constructed, data_files, damage_functions>>

NextSession ==
    \/ UploadData
    \/ GenerateData
    \/ AnalyzeProbabilities
    \/ PredictTrendRequest
    \/ GetRainfallTimeseries
    \/ GetDischargeTimeseries
    \/ DeleteSession

SpecSession == InitSession /\ [][NextSession]_vars

SessionScoped ==
    {"analyze_probabilities", "predict_trend", "get_rainfall_timeseries",
     "get_discharge_timeseries", "delete_session"}

\* C30: after any sequence of create, use and delete requests, a session-scoped
\* request (analyze-probabilities, predict-trend, rainfall or discharge
\* timeseries, delete) naming a session id that is not in the store (never
\* created, or deleted) is answered with HTTP 404 'Session not found', and one
\* naming a session that was created and not deleted is not.
C30_UnknownSessionIs404 ==
    [][call'.op \in SessionScoped =>
           IF call'.session_id \in DOMAIN reference_data.session_data
           THEN result'.status # 404
           ELSE result' = SessionNotFound]_vars

====
